---- MODULE Spec2Model ----
(***************************************************************************)
(* Model of the FIRDS decoder: the selective tag iterator and element      *)
(* materializer (xml/iter_xml.rs), the FromXml record mapper               *)
(* (xml/from_xml.rs) and the commodity product taxonomy decoder            *)
(* (product.rs).                                                           *)
(***************************************************************************)
EXTENDS Integers, Sequences, FiniteSets, TLC

VARIABLES
    tag_names,  \* the tag names the iterator was constructed with
    doc,        \* the token stream the reader is over
    pos,        \* the reader's cursor: index of the next token to read
    yielded,    \* the items next() has returned so far, each with the index of its start tag
    last,       \* what the last call of next() returned
    done,       \* next() has returned None
    codes,      \* the arguments of BaseProduct::try_from_codes
    decoded,    \* its result, once it has been called
    x_ty,       \* the type whose FromXml implementation is called
    x_arg,      \* the Option<&Element> it is called on
    x_res,      \* the results of from_xml and from_xml_option, once called
    to_dir,     \* the download directory exists
    fpath,      \* the content of the file at the final path, if there is one
    fpath_part, \* the content of the `.part` file, if there is one
    dl_args,    \* the arguments of download_zip_with_progress and the state it started in
    dl_pc,      \* where the call is
    dl_sent,    \* the number of requests sent
    stream,     \* the chunks of the response body that have not been delivered
    dl_ret,     \* what the call returned, once it has
    ReferenceData,          \* the rows of table ReferenceData, by rowid
    TradingVenueAttributes, \* the rows of table TradingVenueAttributes, by rowid
    db_entry,   \* the entry whose mark_prev_record has run and whose to_db has not
    db_ret,     \* what the last call of mark_prev_record or to_db returned
    db_closed   \* the rows mark_prev_record has updated so far, each with the entry it was called on

xml_vars == <<tag_names, doc, pos, yielded, last, done>>

product_vars == <<codes, decoded>>

from_xml_vars == <<x_ty, x_arg, x_res>>

download_vars == <<to_dir, fpath, fpath_part, dl_args, dl_pc, dl_sent, stream, dl_ret>>

sql_vars == <<ReferenceData, TradingVenueAttributes, db_entry, db_ret, db_closed>>

vars ==
    <<tag_names, doc, pos, yielded, last, done, codes, decoded, x_ty, x_arg, x_res,
      to_dir, fpath, fpath_part, dl_args, dl_pc, dl_sent, stream, dl_ret,
      ReferenceData, TradingVenueAttributes, db_entry, db_ret, db_closed>>

(***************************************************************************)
(* Bounds.                                                                 *)
(***************************************************************************)
\* Longest token stream handed to the iterator.
MaxLen == 6

\* Longest token stream handed to the iterator whose caller never stops
\* calling.
MaxLiveLen == 3

\* Most rows of a table of the store.
MaxRows == 3

\* Most chunks in a response body.
MaxChunks == 2

\* Longest token stream with read failures handed to the iterator.
MaxReadLen == 4

(***************************************************************************)
(* The token stream produced by the tokenizer (quick_xml events).          *)
(* `<T>` is a Start event, `</T>` an End event, `<T/>` an Empty event      *)
(* (the reader is used with its default configuration, which does not      *)
(* expand empty-element tags), character data is a Text event.  Reading    *)
(* past the last token gives Eof, again and again.                         *)
(***************************************************************************)
TagNames == {"Foo", "Bar"}

Texts == {"a", "b"}

NoText == ""

\* The attributes of a start tag: pairs <<key, value>>.
NoAttrs == {}

\* `<T k="v" ...>`
StartTokAttr(n, a) == [kind |-> "Start", name |-> n, text |-> NoText, attrs |-> a]

StartTok(n) == StartTokAttr(n, NoAttrs)

EndTok(n) == [kind |-> "End", name |-> n, text |-> NoText]

EmptyTok(n) == [kind |-> "Empty", name |-> n, text |-> NoText]

TextTok(t) == [kind |-> "Text", name |-> "", text |-> t]

EofTok == [kind |-> "Eof", name |-> "", text |-> NoText]

\* read_event_into returns Err(e) at this place of the input (an ill-formed
\* piece of markup, a failed read of the underlying source); the reader goes
\* on with what follows when it is called again.
ErrTok == [kind |-> "Err", name |-> "", text |-> NoText]

\* The stack of open tags after reading the tokens of s, or <<"!">> on top
\* when an end tag closes a tag that is not the innermost open one.
RECURSIVE OpenTags(_)
OpenTags(s) ==
    IF s = <<>> THEN <<>>
    ELSE LET st == OpenTags(SubSeq(s, 1, Len(s) - 1))
             t  == s[Len(s)]
         IN  IF st # <<>> /\ st[Len(st)] = "!" THEN st
             ELSE IF t.kind = "Start" THEN Append(st, t.name)
             ELSE IF t.kind = "End"
                  THEN IF st # <<>> /\ st[Len(st)] = t.name
                       THEN SubSeq(st, 1, Len(st) - 1)
                       ELSE Append(st, "!")
             ELSE st

Tokens ==
    {StartTok(n) : n \in TagNames} \cup {EndTok(n) : n \in TagNames}
        \cup {EmptyTok(n) : n \in TagNames} \cup {TextTok(t) : t \in Texts}

\* The events of a stream some of whose reads fail.
ReadTokens == Tokens \cup {ErrTok}

\* The token t can follow the stream s whose open tags are st: an end tag
\* closes the innermost open tag, text occurs only inside an element, and
\* the tokenizer merges adjacent character data into one Text event.
Fits(s, st, t) ==
    /\ t.kind = "End" => st # <<>> /\ st[Len(st)] = t.name
    /\ t.kind = "Text" => st # <<>> /\ s[Len(s)].kind # "Text"

\* The open tags after the token t.
Opened(st, t) ==
    IF t.kind = "Start" THEN Append(st, t.name)
    ELSE IF t.kind = "End" THEN SubSeq(st, 1, Len(st) - 1)
    ELSE st

\* The tokens of d from the i-th on are properly nested, st being the tags
\* open before the i-th.
RECURSIVE NestedFrom(_, _, _)
NestedFrom(d, i, st) ==
    IF i > Len(d) THEN TRUE
    ELSE /\ Fits(SubSeq(d, 1, i - 1), st, d[i])
         /\ NestedFrom(d, i + 1, Opened(st, d[i]))

\* The properly nested token streams: the well-formed documents and their
\* truncations.
IsStream(d) == NestedFrom(d, 1, <<>>)

WellFormed(d) == OpenTags(d) = <<>>

(***************************************************************************)
(* The reader: NsReader::read_event_into.                                  *)
(***************************************************************************)
read_event(d, p) == IF p > Len(d) THEN EofTok ELSE d[p]

\* The cursor after the event at p has been read; it stays at the end once
\* Eof has been returned.
advance(d, p) == IF p > Len(d) THEN p ELSE p + 1

(***************************************************************************)
(* Option and Result values.                                               *)
(***************************************************************************)
None == [some |-> FALSE]

Some(v) == [some |-> TRUE, val |-> v]

Ok(v) == [ok |-> TRUE, val |-> v]

Err(e) == [ok |-> FALSE, err |-> e]

\* The outcome of a call that panics: it returns nothing and the process is
\* aborted.  It is no Ok, so that it passes through every `?` on the way up
\* as the unwinding does.
Aborted == [ok |-> FALSE, aborted |-> TRUE]

(***************************************************************************)
(* Element and XmlIterator::parse_start.                                   *)
(***************************************************************************)
ElementAttr(n, a, c, t) ==
    [local_name |-> n, attributes |-> a, children |-> c, text |-> t]

\* An Element without attributes.
Element(n, c, t) == ElementAttr(n, NoAttrs, c, t)

\* text.unwrap_or_default()
unwrap_or_default(t) == IF t.some THEN t.val ELSE NoText

\* push_text joining the new text in front of the text read before.
push_text_front(text, t) == IF text.some THEN Some(t \o text.val) ELSE Some(t)

\* The Text arm of the loop: Some(prev + t), or Some(t) the first time.
push_text(text, t) == IF text.some THEN Some(text.val \o t) ELSE Some(t)

\* The Start arm of the loop: children.push(child).
push_child(children, child) == Append(children, child)

\* The guard of the End arm: e.name() == start.name().
is_own_end(ev, start) == ev.kind = "End" /\ ev.name = start.name

\* parse_loop that does not descend into a child element: a start tag is
\* passed over and the first end tag of the element's name ends it.
RECURSIVE parse_loop_flat(_, _, _, _, _)
parse_loop_flat(d, p, start, children, text) ==
    LET ev == read_event(d, p)
        q  == advance(d, p)
    IN  IF ev.kind = "Text"
        THEN parse_loop_flat(d, q, start, children, push_text(text, ev.text))
        ELSE IF is_own_end(ev, start) \/ ev.kind = "Eof"
        THEN [res |-> Ok(ElementAttr(start.name, start.attrs, children,
                                    unwrap_or_default(text))),
              pos |-> q]
        ELSE parse_loop_flat(d, q, start, children, text)

\* parse_loop that reports the end of the stream inside an element as an
\* error.
RECURSIVE parse_loop_strict(_, _, _, _, _)
parse_loop_strict(d, p, start, children, text) ==
    LET ev == read_event(d, p)
        q  == advance(d, p)
    IN  IF ev.kind = "Start"
        THEN LET r == parse_loop_strict(d, q, ev, <<>>, None)
             IN  IF r.res.ok
                 THEN parse_loop_strict(d, r.pos, start, push_child(children, r.res.val), text)
                 ELSE r
        ELSE IF ev.kind = "Text"
        THEN parse_loop_strict(d, q, start, children, push_text(text, ev.text))
        ELSE IF is_own_end(ev, start)
        THEN [res |-> Ok(ElementAttr(start.name, start.attrs, children,
                                    unwrap_or_default(text))),
              pos |-> q]
        ELSE IF ev.kind = "Eof"
        THEN [res |-> Err("UnexpectedEof"), pos |-> q]
        ELSE parse_loop_strict(d, q, start, children, text)

\* parse_start(start) with the cursor at p:
\* the loop of lines 115-134 with the children and text gathered so far.
\* Gives the Result and the cursor after the call.
RECURSIVE parse_loop(_, _, _, _, _)
parse_loop(d, p, start, children, text) ==
    LET ev == read_event(d, p)
        q  == advance(d, p)
    IN  IF ev.kind = "Start"
        THEN LET r == parse_loop(d, q, ev, <<>>, None)
             IN  IF r.res.ok
                 THEN parse_loop(d, r.pos, start, push_child(children, r.res.val), text)
                 ELSE r
        ELSE IF ev.kind = "Text"
        THEN parse_loop(d, q, start, children, push_text(text, ev.text))
        ELSE IF is_own_end(ev, start) \/ ev.kind = "Eof"
        THEN [res |-> Ok(ElementAttr(start.name, start.attrs, children,
                                    unwrap_or_default(text))),
              pos |-> q]
        ELSE parse_loop(d, q, start, children, text)

parse_start(d, p, start) == parse_loop(d, p, start, <<>>, None)

(***************************************************************************)
(* Iterator::next for XmlIterator.                                         *)
(***************************************************************************)
\* is_interesting without the lookup: every start tag is materialized.
is_interesting_any(name) == TRUE

\* self.tag_names.contains(tag_name)
is_interesting(name) == name \in tag_names

\* The loop of next() with the cursor at p: the next item, None at Eof, or
\* the panic of line 161 when a read fails.
RECURSIVE scan(_, _)
scan(d, p) ==
    LET ev == read_event(d, p)
        q  == advance(d, p)
    IN  IF ev.kind = "Start" /\ is_interesting(ev.name)
        THEN LET r == parse_start(d, q, ev)
             IN  [item |-> Some(r.res), pos |-> r.pos, at |-> p]
        ELSE IF ev.kind = "Eof"
        THEN [item |-> None, pos |-> q, at |-> p]
        ELSE IF ev.kind = "Err"
        THEN [item |-> Aborted, pos |-> q, at |-> p]
        ELSE scan(d, q)

\* The variables of the other components while this one is exercised.
XmlIdle ==
    tag_names = {} /\ doc = <<>> /\ pos = 1 /\ yielded = <<>> /\ last = None /\ done = FALSE

ProductIdle == codes = None /\ decoded = None

FromXmlIdle == x_ty = "" /\ x_arg = None /\ x_res = None

DownloadIdle ==
    /\ to_dir = FALSE /\ fpath = None /\ fpath_part = None
    /\ dl_args = None /\ dl_pc = "" /\ dl_sent = 0 /\ stream = <<>> /\ dl_ret = None

SqlIdle ==
    /\ ReferenceData = <<>> /\ TradingVenueAttributes = <<>>
    /\ db_entry = None /\ db_ret = None /\ db_closed = {}

InitXml ==
    /\ tag_names = {"Foo"}
    /\ \E n \in 0..MaxLen : doc \in [1..n -> Tokens]
    /\ IsStream(doc)
    /\ pos = 1
    /\ yielded = <<>>
    /\ last = None
    /\ done = FALSE
    /\ ProductIdle
    /\ FromXmlIdle
    /\ DownloadIdle
    /\ SqlIdle

\* next() returns Some(item).
NextItem ==
    LET r == scan(doc, pos)
    IN  /\ last # Aborted
        /\ r.item # Aborted
        /\ r.item.some
        /\ pos' = r.pos
        /\ yielded' = Append(yielded, [res |-> r.item.val, at |-> r.at])
        /\ last' = r.item
        /\ UNCHANGED <<tag_names, doc, done, product_vars, from_xml_vars,
                       download_vars, sql_vars>>

\* next() returns None and leaves the reader at the first token again.
NextNone_rewinding ==
    LET r == scan(doc, pos)
    IN  /\ last # Aborted
        /\ r.item # Aborted
        /\ ~r.item.some
        /\ pos' = 1
        /\ last' = None
        /\ done' = TRUE
        /\ UNCHANGED <<tag_names, doc, yielded, product_vars, from_xml_vars,
                       download_vars, sql_vars>>

\* next() returns None.
NextNone ==
    LET r == scan(doc, pos)
    IN  /\ last # Aborted
        /\ r.item # Aborted
        /\ ~r.item.some
        /\ pos' = r.pos
        /\ last' = None
        /\ done' = TRUE
        /\ UNCHANGED <<tag_names, doc, yielded, product_vars, from_xml_vars,
                       download_vars, sql_vars>>

NextXml == NextItem \/ NextNone

SpecXml == InitXml /\ [][NextXml]_vars

\* The caller keeps calling next(): a call that can return is made sooner or
\* later.
InitXmlLive ==
    /\ tag_names = {"Foo"}
    /\ \E n \in 0..MaxLiveLen : doc \in [1..n -> Tokens]
    /\ IsStream(doc)
    /\ pos = 1
    /\ yielded = <<>>
    /\ last = None
    /\ done = FALSE
    /\ ProductIdle
    /\ FromXmlIdle
    /\ DownloadIdle
    /\ SqlIdle

SpecXmlLive == InitXmlLive /\ [][NextXml]_vars /\ WF_vars(NextXml)

(***************************************************************************)
(* The iterator over a stream some of whose reads fail.                    *)
(***************************************************************************)
InitRead ==
    /\ tag_names = {"Foo"}
    /\ \E n \in 1..MaxReadLen : doc \in [1..n -> ReadTokens]
    /\ IsStream(doc)
    /\ \E i \in 1..Len(doc) : doc[i] = ErrTok
    /\ pos = 1
    /\ yielded = <<>>
    /\ last = None
    /\ done = FALSE
    /\ ProductIdle
    /\ FromXmlIdle
    /\ DownloadIdle
    /\ SqlIdle

\* next() panics: the call returns nothing and no later call is made.
NextPanic ==
    LET r == scan(doc, pos)
    IN  /\ last # Aborted
        /\ r.item = Aborted
        /\ pos' = r.pos
        /\ last' = Aborted
        /\ UNCHANGED <<tag_names, doc, yielded, done, product_vars, from_xml_vars,
                       download_vars, sql_vars>>

NextRead == NextItem \/ NextNone \/ NextPanic

SpecRead == InitRead /\ [][NextRead]_vars

(***************************************************************************)
(* The product taxonomy decoder: BaseProduct::try_from_codes.              *)
(***************************************************************************)
\* An enum value: the variant and its payload (<<>> for a unit variant).
Variant(v, payload) == [variant |-> v, payload |-> payload]

Unit(v) == Variant(v, <<>>)

\* The code tables of the further-subproduct enums (strum serializations).
GrainsAndOilSeedsFurtherSubProduct ==
    [FWHT |-> "FeedWheat", SOYB |-> "Soybeans", CORN |-> "Corn",
     RPSD |-> "Rapeseed", RICE |-> "Rice", OTHR |-> "Other"]

SoftsFurtherSubProduct ==
    [CCOA |-> "Cocoa", ROBU |-> "RobustaCoffee", WHSG |-> "WhiteSugar",
     BRWN |-> "RawSugar", OTHR |-> "Other"]

OliveOilFurtherSubProduct == [LAMP |-> "Lampante"]

GrainFurtherSubProduct == [MWHT |-> "MillingWheat"]

ElectricityFurtherSubProduct ==
    [BSLD |-> "BaseLoad", FITR |-> "FinancialTransmissionRights",
     PKLD |-> "PeakLoad", OFFP |-> "OffPeak", OTHR |-> "Other"]

NaturalGasFurtherSubProduct ==
    [GASP |-> "Gaspool", LNGG |-> "Lng", NBPG |-> "Nbp", NCGG |-> "Ncg",
     TTFG |-> "Ttf"]

OilFurtherSubProduct ==
    [BAKK |-> "Bakken", BDSL |-> "Biodiesel", BRNT |-> "Brent",
     BRNX |-> "BrentNx", CNDA |-> "Canadian", COND |-> "Condensate",
     DSEL |-> "Diesel", DUBA |-> "Dubai", ESPO |-> "Espo", ETHA |-> "Ethanol",
     FUEL |-> "Fuel", FOIL |-> "FuelOil", GOIL |-> "Gasoil",
     GSLN |-> "Gasoline", HEAT |-> "HeatingOil", JTFL |-> "JetFuel",
     KERO |-> "Kerosene", LLSO |-> "LightLouisianaSweet", MARS |-> "Mars",
     NAPH |-> "Naphtha", NGLO |-> "Ngl", TAPI |-> "Tapis", URAL |-> "Urals",
     WTIO |-> "Wti"]

EmissionsFurtherSubProduct ==
    [CERE |-> "Cer", ERUE |-> "Eru", EUAE |-> "Euae", EUAA |-> "Euaa",
     OTHR |-> "Other"]

WetFreightFurtherSubProduct == [TNKR |-> "Tankers"]

DryFreightFurtherSubProduct == [DBCR |-> "DryBulkCarriers"]

NonPreciousMetalsFurtherSubProduct ==
    [ALUM |-> "Aluminium", ALUA |-> "AluminiumAlloy", CBLT |-> "Cobalt",
     COPR |-> "Copper", IRON |-> "IronOre", LEAD |-> "Lead",
     MOLY |-> "Molybdenum", NASC |-> "Nasaac", NICK |-> "Nickel",
     STEL |-> "Steel", TINN |-> "Tin", ZINC |-> "Zinc", OTHR |-> "Other"]

PreciousMetalsFurtherSubProduct ==
    [GOLD |-> "Gold", SLVR |-> "Silver", PTNM |-> "Platinum",
     PLDM |-> "Palladium", OTHR |-> "Other"]

\* The derived EnumString parser of a further-subproduct enum: the variant
\* serialized as s, or strum's ParseError.
enum_from_str(table, s) ==
    IF s \in DOMAIN table THEN Ok(Unit(table[s])) ELSE Err("VariantNotFound")

\* impl From<strum::ParseError> for ProductError
product_error_from(e) == "BadSubProduct"

\* The closure handed to with_fsp_or_err: Ok(Self::V(F::try_from(fsp)?)).
wrap_further(v, table, fsp) ==
    LET r == enum_from_str(table, fsp)
    IN  IF r.ok THEN Ok(Variant(v, <<r.val>>)) ELSE Err(product_error_from(r.err))

\* with_fsp_or_err that accepts a missing further code and builds the
\* variant without one.
with_fsp_or_default(v, table, fsp) ==
    IF fsp.some THEN wrap_further(v, table, fsp.val) ELSE Ok(Unit(v))

\* with_fsp_or_err(fsp, |fsp| Ok(Self::V(F::try_from(fsp)?)))
with_fsp_or_err(v, table, fsp) ==
    IF fsp.some THEN wrap_further(v, table, fsp.val) ELSE Err("NoSubProduct")

\* without_fsp_or_err that does not look at the further code.
without_fsp_unchecked(v, fsp) == Ok(Unit(v))

\* without_fsp_or_err(Self::V, fsp)
without_fsp_or_err(v, fsp) ==
    IF fsp.some THEN Err("BadSubProduct") ELSE Ok(Unit(v))

\* optional_fsp that takes a code it cannot parse for no code.
optional_fsp_lenient(table, fsp) ==
    IF fsp.some
    THEN LET r == enum_from_str(table, fsp.val)
         IN  IF r.ok THEN Ok(Some(r.val)) ELSE Ok(None)
    ELSE Ok(None)

\* optional_fsp::<F>(fsp)
optional_fsp(table, fsp) ==
    IF fsp.some
    THEN LET r == enum_from_str(table, fsp.val)
         IN  IF r.ok THEN Ok(Some(r.val)) ELSE Err(product_error_from(r.err))
    ELSE Ok(None)

\* Ok(Self::V(optional_fsp(fsp)?))
with_optional_fsp(v, table, fsp) ==
    LET r == optional_fsp(table, fsp)
    IN  IF r.ok THEN Ok(Variant(v, <<r.val>>)) ELSE r

AgriculturalSubProduct_try_from_codes(sp, fsp) ==
    CASE sp = "GROS" -> with_fsp_or_err("GrainsAndOilSeeds", GrainsAndOilSeedsFurtherSubProduct, fsp)
      [] sp = "SOFT" -> with_fsp_or_err("Softs", SoftsFurtherSubProduct, fsp)
      [] sp = "POTA" -> without_fsp_or_err("Potato", fsp)
      [] sp = "OOLI" -> with_optional_fsp("OliveOil", OliveOilFurtherSubProduct, fsp)
      [] sp = "DIRY" -> without_fsp_or_err("Dairy", fsp)
      [] sp = "FRST" -> without_fsp_or_err("Forestry", fsp)
      [] sp = "SEAF" -> without_fsp_or_err("Seafood", fsp)
      [] sp = "LSTK" -> without_fsp_or_err("Livestock", fsp)
      [] sp = "GRIN" -> with_optional_fsp("Grain", GrainFurtherSubProduct, fsp)
      [] OTHER -> Err("BadSubProduct")

EnergySubProduct_try_from_codes(sp, fsp) ==
    CASE sp = "ELEC" -> with_fsp_or_err("Electricity", ElectricityFurtherSubProduct, fsp)
      [] sp = "NGAS" -> with_optional_fsp("NaturalGas", NaturalGasFurtherSubProduct, fsp)
      [] sp = "OILP" -> with_optional_fsp("Oil", OilFurtherSubProduct, fsp)
      [] sp = "COAL" -> without_fsp_or_err("Coal", fsp)
      [] sp = "INRG" -> without_fsp_or_err("InterEnergy", fsp)
      [] sp = "RNNG" -> without_fsp_or_err("RenewableEnergy", fsp)
      [] sp = "LGHT" -> without_fsp_or_err("LightEnds", fsp)
      [] sp = "DIST" -> without_fsp_or_err("Distillates", fsp)
      [] OTHER -> Err("BadSubProduct")

EnvironmentalSubProduct_try_from_codes(sp, fsp) ==
    CASE sp = "EMIS" -> with_optional_fsp("Emissions", EmissionsFurtherSubProduct, fsp)
      [] sp = "WTHR" -> without_fsp_or_err("Weather", fsp)
      [] sp = "CRBR" -> without_fsp_or_err("CarbonRelated", fsp)
      [] OTHER -> Err("BadSubProduct")

FreightSubProduct_try_from_codes(sp, fsp) ==
    CASE sp = "WETF" -> with_optional_fsp("Wet", WetFreightFurtherSubProduct, fsp)
      [] sp = "DRYF" -> with_optional_fsp("Dry", DryFreightFurtherSubProduct, fsp)
      [] sp = "CSHP" -> without_fsp_or_err("ContainerShips", fsp)
      [] OTHER -> Err("BadSubProduct")

FertilizerSubProduct_try_from_codes(sp, fsp) ==
    CASE sp = "AMMO" -> without_fsp_or_err("Ammonia", fsp)
      [] sp = "DAPH" -> without_fsp_or_err("Dap", fsp)
      [] sp = "PTSH" -> without_fsp_or_err("Potash", fsp)
      [] sp = "SLPH" -> without_fsp_or_err("Sulphur", fsp)
      [] sp = "UREA" -> without_fsp_or_err("Urea", fsp)
      [] sp = "UAAN" -> without_fsp_or_err("Uan", fsp)
      [] OTHER -> Err("BadSubProduct")

IndustrialProductsSubProduct_try_from_codes(sp, fsp) ==
    CASE sp = "CSTR" -> without_fsp_or_err("Construction", fsp)
      [] sp = "MFTG" -> without_fsp_or_err("Manufacturing", fsp)
      [] OTHER -> Err("BadSubProduct")

MetalsSubProduct_try_from_codes(sp, fsp) ==
    CASE sp = "NPRM" -> with_fsp_or_err("NonPrecious", NonPreciousMetalsFurtherSubProduct, fsp)
      [] sp = "PRME" -> with_fsp_or_err("Precious", PreciousMetalsFurtherSubProduct, fsp)
      [] OTHER -> Err("BadSubProduct")

PaperSubProduct_try_from_codes(sp, fsp) ==
    CASE sp = "CBRD" -> without_fsp_or_err("Containerboard", fsp)
      [] sp = "NSPT" -> without_fsp_or_err("Newsprint", fsp)
      [] sp = "PULP" -> without_fsp_or_err("Pulp", fsp)
      [] sp = "RCVP" -> without_fsp_or_err("RecoveredPaper", fsp)
      [] OTHER -> Err("BadSubProduct")

PolypropyleneSubProduct_try_from_codes(sp, fsp) ==
    CASE sp = "PLST" -> without_fsp_or_err("Plastic", fsp)
      [] OTHER -> Err("BadSubProduct")

OtherC10SubProduct_try_from_codes(sp, fsp) ==
    CASE sp = "DLVR" -> without_fsp_or_err("Deliverable", fsp)
      [] sp = "NDLV" -> without_fsp_or_err("NonDeliverable", fsp)
      [] OTHER -> Err("BadSubProduct")

\* Ok(Self::V(S::try_from_codes(sp, further_sub_prod)?))
wrap_sub(v, r) == IF r.ok THEN Ok(Variant(v, <<r.val>>)) ELSE r

\* The match on prod when no subproduct code is given, with MCEX left out.
stand_alone_without_mcex(prod) ==
    CASE prod = "INFL" -> Ok(Unit("Inflation"))
      [] prod = "OEST" -> Ok(Unit("OfficialEconomicStatistics"))
      [] prod = "OTHR" -> Ok(Unit("Other"))
      [] OTHER -> Err("BadProduct")

\* The match on prod when no subproduct code is given (lines 118-124).
stand_alone(prod) ==
    CASE prod = "MCEX" -> Ok(Unit("MultiCommodityExotic"))
      [] prod = "INFL" -> Ok(Unit("Inflation"))
      [] prod = "OEST" -> Ok(Unit("OfficialEconomicStatistics"))
      [] prod = "OTHR" -> Ok(Unit("Other"))
      [] OTHER -> Err("BadProduct")

\* The match on prod when a subproduct code is given (lines 84-116).
with_sub_product(prod, sp, fsp) ==
    CASE prod = "AGRI" -> wrap_sub("Agricultural", AgriculturalSubProduct_try_from_codes(sp, fsp))
      [] prod = "NRGY" -> wrap_sub("Energy", EnergySubProduct_try_from_codes(sp, fsp))
      [] prod = "ENVR" -> wrap_sub("Environmental", EnvironmentalSubProduct_try_from_codes(sp, fsp))
      [] prod = "FRGT" -> wrap_sub("Freight", FreightSubProduct_try_from_codes(sp, fsp))
      [] prod = "FRTL" -> wrap_sub("Fertilizer", FertilizerSubProduct_try_from_codes(sp, fsp))
      [] prod = "INDP" -> wrap_sub("IndustrialProducts", IndustrialProductsSubProduct_try_from_codes(sp, fsp))
      [] prod = "METL" -> wrap_sub("Metals", MetalsSubProduct_try_from_codes(sp, fsp))
      [] prod = "PAPR" -> wrap_sub("Paper", PaperSubProduct_try_from_codes(sp, fsp))
      [] prod = "POLY" -> wrap_sub("Polypropylene", PolypropyleneSubProduct_try_from_codes(sp, fsp))
      [] prod = "OTHC" -> wrap_sub("OtherC10", OtherC10SubProduct_try_from_codes(sp, fsp))
      [] OTHER -> Err("BadSubProduct")

\* BaseProduct::try_from_codes(prod, sub_prod, further_sub_prod)
try_from_codes(prod, sub_prod, further_sub_prod) ==
    IF sub_prod.some
    THEN with_sub_product(prod, sub_prod.val, further_sub_prod)
    ELSE stand_alone(prod)

\* The codes the decoder is called with: every code of the taxonomy at each
\* level, and codes that are in no table.
FurtherTables ==
    {GrainsAndOilSeedsFurtherSubProduct, SoftsFurtherSubProduct,
     OliveOilFurtherSubProduct, GrainFurtherSubProduct,
     ElectricityFurtherSubProduct, NaturalGasFurtherSubProduct,
     OilFurtherSubProduct, EmissionsFurtherSubProduct,
     WetFreightFurtherSubProduct, DryFreightFurtherSubProduct,
     NonPreciousMetalsFurtherSubProduct, PreciousMetalsFurtherSubProduct}

FurtherCodes == UNION {DOMAIN t : t \in FurtherTables}

SubProductCodes ==
    {"GROS", "SOFT", "POTA", "OOLI", "DIRY", "FRST", "SEAF", "LSTK", "GRIN",
     "ELEC", "NGAS", "OILP", "COAL", "INRG", "RNNG", "LGHT", "DIST",
     "EMIS", "WTHR", "CRBR", "WETF", "DRYF", "CSHP",
     "AMMO", "DAPH", "PTSH", "SLPH", "UREA", "UAAN", "CSTR", "MFTG",
     "NPRM", "PRME", "CBRD", "NSPT", "PULP", "RCVP", "PLST", "DLVR", "NDLV"}

BaseProductCodes ==
    {"AGRI", "NRGY", "ENVR", "FRGT", "FRTL", "INDP", "METL", "MCEX", "PAPR",
     "POLY", "INFL", "OEST", "OTHC", "OTHR"}

UnknownCodes == {"X", "ZZZZ"}

OptionOf(S) == {None} \cup {Some(x) : x \in S}

InitProduct ==
    /\ codes \in {Some(c) : c \in
                    [prod : BaseProductCodes \cup UnknownCodes,
                     sub_prod : OptionOf(SubProductCodes \cup UnknownCodes),
                     further_sub_prod : OptionOf(FurtherCodes \cup UnknownCodes)]}
    /\ decoded = None
    /\ XmlIdle
    /\ FromXmlIdle
    /\ DownloadIdle
    /\ SqlIdle

\* The call BaseProduct::try_from_codes(prod, sub_prod, further_sub_prod).
TryFromCodes ==
    /\ ~decoded.some
    /\ decoded' = Some(try_from_codes(codes.val.prod, codes.val.sub_prod,
                                      codes.val.further_sub_prod))
    /\ UNCHANGED <<codes, xml_vars, from_xml_vars,
                   download_vars, sql_vars>>

NextProduct == TryFromCodes

SpecProduct == InitProduct /\ [][NextProduct]_vars

(***************************************************************************)
(* The control flow of the mapper functions: `?`, `if let`.                *)
(***************************************************************************)
\* `let v = r?; K(v)`: the rest of the function applied to the value of an
\* Ok, an Err returned at once.
and_then(r, K(_)) == IF r.ok THEN K(r.val) ELSE r

\* `if let Some(v) = o { K(v) } else { otherwise }`
if_let_some(o, K(_), otherwise) == IF o.some THEN K(o.val) ELSE otherwise

\* Ok(Some(r?))
ok_some(r) == IF r.ok THEN Ok(Some(r.val)) ELSE r

(***************************************************************************)
(* Field accessors on a materialized Element.                              *)
(***************************************************************************)
\* self.children.iter().find(|child| child.local_name == tag_name), from
\* the i-th child on.
RECURSIVE find_from(_, _, _)
find_from(children, i, tag_name) ==
    IF i > Len(children) THEN None
    ELSE IF children[i].local_name = tag_name THEN Some(children[i])
    ELSE find_from(children, i + 1, tag_name)

\* Element::find_child
find_child(e, tag_name) == find_from(e.children, 1, tag_name)

\* Element::get_child
get_child(e, tag_name) ==
    LET c == find_child(e, tag_name)
    IN  IF c.some THEN Ok(c.val) ELSE Err("ElementNotFound")

\* Element::find_first_child
find_first_child(e) == IF e.children = <<>> THEN None ELSE Some(e.children[1])

\* Element::get_first_child
get_first_child(e) ==
    LET c == find_first_child(e)
    IN  IF c.some THEN Ok(c.val) ELSE Err("ElementNotFound")

\* Element::find_attr
find_attr(e, key) ==
    IF \E a \in e.attributes : a[1] = key
    THEN Some((CHOOSE a \in e.attributes : a[1] = key)[2])
    ELSE None

\* Element::get_attr
get_attr(e, key) ==
    LET a == find_attr(e, key)
    IN  IF a.some THEN Ok(a.val) ELSE Err("AttributeNotFound")

\* child_or_none
child_or_none(elem, child_name) ==
    IF elem.some THEN find_child(elem.val, child_name) ELSE None

\* text_or_none
text_or_none(elem) == IF elem.some THEN Some(elem.val.text) ELSE None

\* The decimal integers and numbers among the texts of the model, with
\* their values; a number is kept in tenths.
Int32Texts == [t \in {"3", "25"} |-> IF t = "3" THEN 3 ELSE 25]

Float64Texts ==
    [t \in {"3", "25", "7.5"} |-> IF t = "3" THEN 30 ELSE IF t = "25" THEN 250 ELSE 75]

\* str::parse::<i32>, with the error converted by From<ParseIntError>.
parse_i32(t) == IF t \in DOMAIN Int32Texts THEN Ok(Int32Texts[t]) ELSE Err("Int")

\* str::parse::<f64>, with the error converted by From<ParseFloatError>.
parse_f64(t) == IF t \in DOMAIN Float64Texts THEN Ok(Float64Texts[t]) ELSE Err("Float")

\* The texts of the model that are calendar dates written %Y-%m-%d, with
\* the date as <<year, month, day>>.
DateTexts ==
    [t \in {"2024-01-15", "2030-12-31"} |->
        IF t = "2024-01-15" THEN <<2024, 1, 15>> ELSE <<2030, 12, 31>>]

\* NaiveDate::parse_from_str(t, "%Y-%m-%d"), with the error converted by
\* From<chrono::ParseError>.
parse_date(t) == IF t \in DOMAIN DateTexts THEN Ok(DateTexts[t]) ELSE Err("DateTime")

\* The texts of the model that are longer than 10 bytes, with their first
\* 10 bytes.
First10 ==
    [t \in {"2024-01-15T00:00:00Z", "2030-12-31+01:00", "not-a-date-at-all"} |->
        IF t = "2024-01-15T00:00:00Z" THEN "2024-01-15"
        ELSE IF t = "2030-12-31+01:00" THEN "2030-12-31"
        ELSE "not-a-date"]

\* &text[..10]: the first 10 bytes of an ASCII text; the slice panics when
\* the text is shorter.
slice_to_10(t) ==
    IF Len(t) < 10 THEN Aborted
    ELSE IF Len(t) = 10 THEN Ok(t)
    ELSE Ok(First10[t])

\* date_or_none
date_or_none(elem) ==
    IF elem.some
    THEN LET head == slice_to_10(elem.val.text)
         IN  IF head = Aborted THEN Aborted
             ELSE LET r == parse_date(head.val)
                  IN  IF r.ok THEN Ok(Some(r.val)) ELSE r
    ELSE Ok(None)

\* str::parse::<bool>, with the error converted by From<ParseBoolError>.
parse_bool(t) ==
    IF t = "true" THEN Ok(TRUE) ELSE IF t = "false" THEN Ok(FALSE) ELSE Err("Bool")

\* The texts of the model that are RFC 3339 date-times, with the instant as
\* <<year, month, day, seconds of the day>> in UTC.
DateTimeTexts ==
    [t \in {"2024-01-15T00:00:00Z"} |-> <<2024, 1, 15, 0>>]

\* DateTime::parse_from_rfc3339(t), converted to Utc.
parse_from_rfc3339(t) ==
    IF t \in DOMAIN DateTimeTexts THEN Ok(DateTimeTexts[t]) ELSE Err("DateTime")

\* datetime_or_none
datetime_or_none(elem) ==
    IF elem.some THEN ok_some(parse_from_rfc3339(elem.val.text)) ELSE Ok(None)

\* parse_or_none::<i32>
parse_or_none_i32(elem) ==
    IF elem.some
    THEN LET r == parse_i32(elem.val.text)
         IN  IF r.ok THEN Ok(Some(r.val)) ELSE r
    ELSE Ok(None)

(***************************************************************************)
(* Closed enumerations.                                                    *)
(***************************************************************************)
TermUnit == [DAYS |-> "Days", WEEK |-> "Week", MNTH |-> "Month", YEAR |-> "Year"]

IndexCode ==
    [EONA |-> "Eonia", EONS |-> "EoniaSwap", EURO |-> "Euribor",
     EUCH |-> "EuroSwiss", GCFR |-> "GcfRepo", ISDA |-> "Isdafix",
     LIBI |-> "Libid", LIBO |-> "Libor", MAAA |-> "MuniAaa",
     PFAN |-> "Pfandbriefe", TIBO |-> "Tibor", STBO |-> "Stibor",
     BBSW |-> "Bbsw", JIBA |-> "Jibar", BUBO |-> "Bubor", CDOR |-> "Cdor",
     CIBO |-> "Cibor", MOSP |-> "Mosprim", NIBO |-> "Nibor",
     PRBO |-> "Pribor", TLBO |-> "Telbor", WIBO |-> "Wibor",
     TREA |-> "Treasury", SWAP |-> "Swap", FUSW |-> "FutureSwap"]

DebtSeniority ==
    [SNDB |-> "Senior", MZZD |-> "Mezzanine", SBOD |-> "Subordinated",
     JUND |-> "Junior"]

OptionType == [PUTO |-> "Put", CALL |-> "Call", OTHR |-> "Other"]

OptionExerciseStyle ==
    [EURO |-> "European", AMER |-> "American", ASIA |-> "Asian",
     BERM |-> "Bermudan", OTHR |-> "Other"]

DeliveryType == [PHYS |-> "Physical", CASH |-> "Cash", OPTL |-> "Optional"]

TransactionType ==
    [FUTR |-> "Futures", OPTN |-> "Options", TAPO |-> "Tapos",
     SWAP |-> "Swaps", MINI |-> "Minis", OTCT |-> "OverTheCounter",
     ORIT |-> "Outright", CRCK |-> "Crack", DIFF |-> "Differential",
     OTHR |-> "Other"]

FinalPriceType ==
    [ARGM |-> "ArgusMcCloskey", BLTC |-> "Baltic", EXOF |-> "Exchange",
     GBCL |-> "GlobalCoal", IHSM |-> "IHSMarkit", PLAT |-> "Platts",
     OTHR |-> "Other"]

FxType == [FXCR |-> "CrossRates", FXEM |-> "EmergingMarkets", FXMJ |-> "Majors"]

\* impl From<strum::ParseError> for ParseError, then
\* impl From<strum::ParseError> for XmlError
xml_error_from_strum(e) == "Firds(StrumEnum)"

\* An enum's from_str that falls back to the first variant of the table for
\* a code that is not in it.
enum_try_from_or_default(table, t) ==
    IF t \in DOMAIN table THEN Ok(Unit(table[t]))
    ELSE Ok(Unit(table[CHOOSE c \in DOMAIN table : TRUE]))

\* An enum's from_str / try_from as used in from_xml, the error converted.
enum_try_from(table, t) ==
    LET r == enum_from_str(table, t)
    IN  IF r.ok THEN r ELSE Err(xml_error_from_strum(r.err))

\* IndexName::from_str that fails for a string that is not an IndexCode.
IndexName_from_str_strict(t) ==
    LET r == enum_from_str(IndexCode, t)
    IN  IF r.ok THEN Ok(Variant("Code", <<r.val>>)) ELSE Err("Firds(StrumEnum)")

\* IndexName::from_str
IndexName_from_str(t) ==
    LET r == enum_from_str(IndexCode, t)
    IN  IF r.ok THEN Ok(Variant("Code", <<r.val>>)) ELSE Ok(Variant("Text", <<t>>))

(***************************************************************************)
(* The FromXml record mapper.                                              *)
(***************************************************************************)
\* FromXml::from_xml_option (the trait's provided method), for the
\* implementor whose from_xml is T_from_xml.
from_xml_option_for(T_from_xml(_), elem) ==
    IF elem.some THEN ok_some(T_from_xml(elem.val)) ELSE Ok(None)

\* impl FromXml for Term
Term_from_xml(elem) ==
    and_then(get_child(elem, "Val"), LAMBDA val :
    and_then(parse_i32(val.text), LAMBDA number :
    and_then(get_child(elem, "Unit"), LAMBDA u :
    and_then(enum_try_from(TermUnit, u.text), LAMBDA unit :
        Ok([number |-> number, unit |-> unit])))))

\* The name of a FloatingRate: the text of RefRate/Indx, else of RefRate/Nm.
FloatingRate_name(ref_rate_elem) ==
    LET indx == text_or_none(find_child(ref_rate_elem, "Indx"))
        nm   == text_or_none(find_child(ref_rate_elem, "Nm"))
    IN  IF indx.some THEN ok_some(IndexName_from_str(indx.val))
        ELSE IF nm.some THEN ok_some(IndexName_from_str(nm.val))
        ELSE Ok(None)

\* impl FromXml for FloatingRate
FloatingRate_from_xml(elem) ==
    and_then(get_child(elem, "RefRate"), LAMBDA ref_rate_elem :
    and_then(FloatingRate_name(ref_rate_elem), LAMBDA name :
    and_then(from_xml_option_for(Term_from_xml, find_child(elem, "Term")), LAMBDA term :
        Ok([name |-> name, term |-> term]))))

\* The Floating arm of InterestRate::from_xml.
InterestRate_floating(fltg) ==
    and_then(FloatingRate_from_xml(fltg), LAMBDA rate :
    and_then(parse_or_none_i32(find_child(fltg, "BsisPtSprd")), LAMBDA spread :
        Ok(Variant("Floating", <<rate, spread>>))))

\* The Fixed arm of InterestRate::from_xml.
InterestRate_fixed(elem) ==
    and_then(get_child(elem, "Fxd"), LAMBDA fxd :
    and_then(parse_f64(fxd.text), LAMBDA rate :
        Ok(Variant("Fixed", <<rate>>))))

\* InterestRate::from_xml that probes only `Fxd`.
InterestRate_from_xml_fixed_only(elem) == InterestRate_fixed(elem)

\* InterestRate::from_xml that falls back to `Fxd` when `Fltg` does not
\* decode.
InterestRate_from_xml_with_fallback(elem) ==
    if_let_some(find_child(elem, "Fltg"),
        LAMBDA fltg : IF InterestRate_floating(fltg).ok
                      THEN InterestRate_floating(fltg)
                      ELSE InterestRate_fixed(elem),
        InterestRate_fixed(elem))

\* impl FromXml for InterestRate
InterestRate_from_xml(elem) ==
    if_let_some(find_child(elem, "Fltg"), InterestRate_floating, InterestRate_fixed(elem))

\* impl FromXml for DebtSeniority
DebtSeniority_from_xml(elem) == enum_try_from(DebtSeniority, elem.text)

\* impl FromXml for TransactionType
TransactionType_from_xml(elem) == enum_try_from(TransactionType, elem.text)

\* impl FromXml for FinalPriceType
FinalPriceType_from_xml(elem) == enum_try_from(FinalPriceType, elem.text)

\* impl FromXml for FxType
FxType_from_xml(elem) == enum_try_from(FxType, elem.text)

\* impl From<ProductError> for ParseError, then
\* impl From<crate::ProductError> for XmlError
xml_error_from_product(e) == "Firds(Product(" \o e \o "))"

\* The `?` on a Result<_, ProductError> in a function that returns
\* Result<_, XmlError>: the error converted, an Ok passed on.
product_or_xml_error(r) == IF r.ok THEN r ELSE Err(xml_error_from_product(r.err))

\* impl FromXml for BaseProduct
BaseProduct_from_xml(elem) ==
    and_then(get_child(elem, "BasePdct"), LAMBDA base :
        product_or_xml_error(
            try_from_codes(base.text,
                           text_or_none(find_child(elem, "SubPdct")),
                           text_or_none(find_child(elem, "AddtlSubPdct")))))

\* `if let Ok(p) = r { Ok(p) } else { alt }`
or_else(r, alt) == IF r.ok THEN r ELSE alt

\* The product of CommodityDerivativeAttributes::from_xml taken from the
\* first child of `Pdct` only, without the retry one level deeper.
Commodity_product_no_retry(child) == BaseProduct_from_xml(child)

\* The product of CommodityDerivativeAttributes::from_xml (lines 196-202):
\* decoded from the first child of `Pdct`, or else from that child's first
\* child.
Commodity_product(child) ==
    or_else(BaseProduct_from_xml(child),
            and_then(get_first_child(child), BaseProduct_from_xml))

\* impl FromXml for CommodityDerivativeAttributes
CommodityDerivativeAttributes_from_xml(elem) ==
    and_then(get_child(elem, "Pdct"), LAMBDA prod_elem :
    and_then(get_first_child(prod_elem), LAMBDA child :
    and_then(Commodity_product(child), LAMBDA product :
    and_then(from_xml_option_for(TransactionType_from_xml, find_child(elem, "TxTp")),
             LAMBDA transaction_type :
    and_then(from_xml_option_for(FinalPriceType_from_xml, find_child(elem, "FnlPricTp")),
             LAMBDA final_price_type :
        Ok([product |-> product,
            transaction_type |-> transaction_type,
            final_price_type |-> final_price_type]))))))

\* impl FromXml for InterestRateDerivativeAttributes
InterestRateDerivativeAttributes_from_xml(elem) ==
    and_then(get_child(elem, "IntrstRate"), LAMBDA rate_elem :
    and_then(FloatingRate_from_xml(rate_elem), LAMBDA reference_rate :
    and_then(from_xml_option_for(InterestRate_from_xml, find_child(elem, "FirstLegIntrstRate")),
             LAMBDA interest_rate_1 :
    and_then(from_xml_option_for(InterestRate_from_xml, find_child(elem, "OthrLegIntrstRate")),
             LAMBDA interest_rate_2 :
        Ok([reference_rate |-> reference_rate,
            interest_rate_1 |-> interest_rate_1,
            notional_currency_2 |-> text_or_none(find_child(elem, "OtherNtnlCcy")),
            interest_rate_2 |-> interest_rate_2])))))

\* impl FromXml for FxDerivativeAttributes
FxDerivativeAttributes_from_xml(elem) ==
    and_then(from_xml_option_for(FxType_from_xml, find_child(elem, "FxTp")), LAMBDA fx_type :
        Ok([notional_currency_2 |-> text_or_none(find_child(elem, "OthrNtnlCcy")),
            fx_type |-> fx_type]))

\* impl FromXml for Index
Index_from_xml(elem) ==
    and_then(get_child(elem, "Nm"), LAMBDA nm :
    and_then(FloatingRate_from_xml(nm), LAMBDA name :
        Ok([isin |-> text_or_none(find_child(elem, "ISIN")), name |-> name])))

\* UnderlyingSingle::from_xml that probes for the presence of the choice tags
\* among all the children instead of matching on the first child.
UnderlyingSingle_from_xml_by_presence(elem) ==
    if_let_some(find_child(elem, "ISIN"),
        LAMBDA c : Ok(Variant("Isin", <<c.text>>)),
    if_let_some(find_child(elem, "LEI"),
        LAMBDA c : Ok(Variant("Lei", <<c.text>>)),
    if_let_some(find_child(elem, "Indx"),
        LAMBDA c : wrap_sub("Index", Index_from_xml(c)),
        IF elem.children = <<>> THEN Err("ElementNotFound") ELSE Err("Firds(Enum)"))))

\* impl FromXml for UnderlyingSingle
UnderlyingSingle_from_xml(elem) ==
    if_let_some(find_first_child(elem),
        LAMBDA child :
            CASE child.local_name = "ISIN" -> Ok(Variant("Isin", <<child.text>>))
              [] child.local_name = "LEI" -> Ok(Variant("Lei", <<child.text>>))
              [] child.local_name = "Indx" -> wrap_sub("Index", Index_from_xml(child))
              [] OTHER -> Err("Firds(Enum)"),
        Err("ElementNotFound"))

\* The loop of UnderlyingBasket::from_xml from the i-th child on.
RECURSIVE UnderlyingBasket_loop(_, _, _, _)
UnderlyingBasket_loop(children, i, isin, issuer_lei) ==
    IF i > Len(children) THEN Ok([isin |-> isin, issuer_lei |-> issuer_lei])
    ELSE LET c == children[i]
         IN  CASE c.local_name = "ISIN" ->
                    UnderlyingBasket_loop(children, i + 1, Append(isin, c.text), issuer_lei)
               [] c.local_name = "LEI" ->
                    UnderlyingBasket_loop(children, i + 1, isin, Append(issuer_lei, c.text))
               [] OTHER -> Err("UnexpectedElement")

\* impl FromXml for UnderlyingBasket
UnderlyingBasket_from_xml(elem) == UnderlyingBasket_loop(elem.children, 1, <<>>, <<>>)

\* impl FromXml for DerivativeUnderlying
DerivativeUnderlying_from_xml(elem) ==
    if_let_some(find_first_child(elem),
        LAMBDA child :
            CASE child.local_name = "Sngl" -> wrap_sub("Single", UnderlyingSingle_from_xml(child))
              [] child.local_name = "Bskt" -> wrap_sub("Basket", UnderlyingBasket_from_xml(child))
              [] OTHER -> Err("UnexpectedElement"),
        Err("ElementNotFound"))

\* The price type and the value element chosen by StrikePrice::from_xml
\* (lines 43-53).
StrikePrice_value(price_elem, monetary_val_elem) ==
    if_let_some(child_or_none(monetary_val_elem, "Amt"),
                LAMBDA e : Ok(<<Unit("MonetaryValue"), e>>),
    if_let_some(find_child(price_elem, "Pctg"),
                LAMBDA e : Ok(<<Unit("Percentage"), e>>),
    if_let_some(find_child(price_elem, "Yld"),
                LAMBDA e : Ok(<<Unit("Yield"), e>>),
    if_let_some(find_child(price_elem, "BsisPts"),
                LAMBDA e : Ok(<<Unit("BasisPoints"), e>>),
                Err("ElementNotFound")))))

\* The `Pric` arm of StrikePrice::from_xml.
StrikePrice_priced(price_elem) ==
    and_then(StrikePrice_value(price_elem, find_child(price_elem, "MntryVal")), LAMBDA chosen :
    and_then(parse_f64(chosen[2].text), LAMBDA price :
        Ok([price_type |-> chosen[1],
            price |-> Some(price),
            pending |-> FALSE,
            currency |-> text_or_none(child_or_none(find_child(price_elem, "MntryVal"),
                                                    "Ccy"))])))

\* The `NoPric` arm that takes every `Pdg` child for a pending price.
StrikePrice_no_price_always_pending(elem) ==
    and_then(get_child(elem, "NoPric"), LAMBDA no_price_elem :
    and_then(get_child(no_price_elem, "Pdg"), LAMBDA pdg :
        Ok([price_type |-> Unit("NoPrice"),
            price |-> None,
            pending |-> TRUE,
            currency |-> text_or_none(find_child(no_price_elem, "Ccy"))])))

\* The `NoPric` arm of StrikePrice::from_xml.
StrikePrice_no_price(elem) ==
    and_then(get_child(elem, "NoPric"), LAMBDA no_price_elem :
    and_then(get_child(no_price_elem, "Pdg"), LAMBDA pdg :
        Ok([price_type |-> Unit("NoPrice"),
            price |-> None,
            pending |-> (pdg.text = "PNDG"),
            currency |-> text_or_none(find_child(no_price_elem, "Ccy"))])))

\* impl FromXml for StrikePrice
StrikePrice_from_xml(elem) ==
    if_let_some(find_child(elem, "Pric"), StrikePrice_priced, StrikePrice_no_price(elem))

\* Self::default() of AssetClassSpecificAttributes
AssetClassSpecificAttributes_default ==
    [commodity_attributes |-> None, ir_attributes |-> None, fx_attributes |-> None]

\* attrs.field = Some(r?) and on to the next child, or the error of r.
set_field(attrs, field, r) ==
    IF r.ok THEN Ok([attrs EXCEPT ![field] = Some(r.val)]) ELSE r

\* The arm of the match in AssetClassSpecificAttributes::from_xml taken for
\* the child c (lines 289-296).
AssetClassSpecificAttributes_arm(attrs, c) ==
    CASE c.local_name = "Cmmdty" ->
            set_field(attrs, "commodity_attributes", CommodityDerivativeAttributes_from_xml(c))
      [] c.local_name = "Intrst" ->
            set_field(attrs, "ir_attributes", InterestRateDerivativeAttributes_from_xml(c))
      [] c.local_name = "FX" ->
            set_field(attrs, "fx_attributes", FxDerivativeAttributes_from_xml(c))
      [] OTHER -> Err("UnexpectedElement")

\* The loop of AssetClassSpecificAttributes::from_xml from the i-th child
\* on; r is the outcome of the children before it: Ok(attrs), or the error
\* that has ended the loop.
RECURSIVE AssetClassSpecificAttributes_loop(_, _, _)
AssetClassSpecificAttributes_loop(children, i, r) ==
    IF ~r.ok \/ i > Len(children) THEN r
    ELSE AssetClassSpecificAttributes_loop(
             children, i + 1, AssetClassSpecificAttributes_arm(r.val, children[i]))

\* impl FromXml for AssetClassSpecificAttributes
AssetClassSpecificAttributes_from_xml(elem) ==
    AssetClassSpecificAttributes_loop(elem.children, 1,
                                      Ok(AssetClassSpecificAttributes_default))

\* DerivativeAttributes::default()
DerivativeAttributes_default ==
    [expiry_date |-> None, price_multiplier |-> None, underlying |-> None,
     option_type |-> None, strike_price |-> None, option_exercise_style |-> None,
     delivery_type |-> None, asset_class_specific_attributes |-> None]

\* The arm of the match in DerivativeAttributes::from_xml taken for the
\* child c (lines 308-327).
DerivativeAttributes_arm(attrs, c) ==
    CASE c.local_name = "XpryDt" -> set_field(attrs, "expiry_date", parse_date(c.text))
      [] c.local_name = "PricMltplr" -> set_field(attrs, "price_multiplier", parse_f64(c.text))
      [] c.local_name = "UndrlygInstrm" ->
            set_field(attrs, "underlying", DerivativeUnderlying_from_xml(c))
      [] c.local_name = "OptnTp" ->
            set_field(attrs, "option_type", enum_try_from(OptionType, c.text))
      [] c.local_name = "StrkPric" -> set_field(attrs, "strike_price", StrikePrice_from_xml(c))
      [] c.local_name = "OptnExrcStyle" ->
            set_field(attrs, "option_exercise_style", enum_try_from(OptionExerciseStyle, c.text))
      [] c.local_name = "DlvryTp" ->
            set_field(attrs, "delivery_type", enum_try_from(DeliveryType, c.text))
      [] c.local_name = "AsstClssSpcfcAttrbts" ->
            set_field(attrs, "asset_class_specific_attributes",
                      AssetClassSpecificAttributes_from_xml(c))
      [] OTHER -> Err("UnexpectedElement")

\* The loop of DerivativeAttributes::from_xml that passes over a child whose
\* tag it does not know.
RECURSIVE DerivativeAttributes_loop_skipping(_, _, _)
DerivativeAttributes_loop_skipping(children, i, r) ==
    IF ~r.ok \/ i > Len(children) THEN r
    ELSE DerivativeAttributes_loop_skipping(
             children, i + 1,
             IF DerivativeAttributes_arm(r.val, children[i]) = Err("UnexpectedElement")
             THEN r ELSE DerivativeAttributes_arm(r.val, children[i]))

\* The loop of DerivativeAttributes::from_xml from the i-th child on; r is
\* the outcome of the children before it: Ok(attrs), or the error that has
\* ended the loop.
RECURSIVE DerivativeAttributes_loop(_, _, _)
DerivativeAttributes_loop(children, i, r) ==
    IF ~r.ok \/ i > Len(children) THEN r
    ELSE DerivativeAttributes_loop(
             children, i + 1, DerivativeAttributes_arm(r.val, children[i]))

\* impl FromXml for DerivativeAttributes
DerivativeAttributes_from_xml(elem) ==
    DerivativeAttributes_loop(elem.children, 1, Ok(DerivativeAttributes_default))

\* impl FromXml for TradingVenueAttributes
TradingVenueAttributes_from_xml(elem) ==
    and_then(get_child(elem, "Id"), LAMBDA id :
    and_then(get_child(elem, "IssrReq"), LAMBDA issr_req :
    and_then(parse_bool(issr_req.text), LAMBDA requested_admission :
    and_then(datetime_or_none(find_child(elem, "AdmssnApprvlDtByIssr")), LAMBDA approval_date :
    and_then(datetime_or_none(find_child(elem, "ReqForAdmssnDt")), LAMBDA request_date :
    and_then(datetime_or_none(find_child(elem, "FrstTradDt")), LAMBDA first_trade_date :
    and_then(datetime_or_none(find_child(elem, "TermntnDt")), LAMBDA termination_date :
        Ok([trading_venue |-> id.text,
            requested_admission |-> requested_admission,
            approval_date |-> approval_date,
            request_date |-> request_date,
            admission_or_first_trade_date |-> first_trade_date,
            termination_date |-> termination_date]))))))))

\* The `FrDtToDt` arm of PublicationPeriod::from_xml (lines 144-148).
PublicationPeriod_from_to(fdtd) ==
    and_then(parse_date(fdtd.text), LAMBDA from_date :
    and_then(date_or_none(find_child(fdtd, "ToDt")), LAMBDA to_date :
        Ok([from_date |-> from_date, to_date |-> to_date])))

\* The `FrDt` arm of PublicationPeriod::from_xml (lines 149-153).
PublicationPeriod_from(elem) ==
    and_then(get_child(elem, "FrDt"), LAMBDA fr_dt :
    and_then(parse_date(fr_dt.text), LAMBDA from_date :
        Ok([from_date |-> from_date, to_date |-> None])))

\* impl FromXml for PublicationPeriod
PublicationPeriod_from_xml(elem) ==
    if_let_some(find_child(elem, "FrDtToDt"), PublicationPeriod_from_to,
                PublicationPeriod_from(elem))

\* impl FromXml for TechnicalAttributes
TechnicalAttributes_from_xml(elem) ==
    and_then(from_xml_option_for(PublicationPeriod_from_xml, find_child(elem, "PblctnPrd")),
             LAMBDA publication_period :
        Ok([relevant_competent_authority |-> text_or_none(find_child(elem, "RlvntCmptntAuthrty")),
            publication_period |-> publication_period,
            relevant_trading_venue |-> text_or_none(find_child(elem, "RlvntTradgVn"))]))

\* impl FromXml for DebtAttributes
DebtAttributes_from_xml(elem) ==
    and_then(get_child(elem, "TtlIssdNmnlAmt"), LAMBDA issued_amount_elem :
    and_then(parse_f64(issued_amount_elem.text), LAMBDA total_issued_amount :
    and_then(date_or_none(find_child(elem, "MtrtyDt")), LAMBDA maturity_date :
    and_then(get_attr(issued_amount_elem, "Ccy"), LAMBDA nominal_currency :
    and_then(get_child(elem, "NmnlValPerUnit"), LAMBDA per_unit :
    and_then(parse_f64(per_unit.text), LAMBDA nominal_value_per_unit :
    and_then(get_child(elem, "IntrstRate"), LAMBDA rate_elem :
    and_then(InterestRate_from_xml(rate_elem), LAMBDA interest_rate :
    and_then(from_xml_option_for(DebtSeniority_from_xml, find_child(elem, "DebtSnrty")),
             LAMBDA seniority :
        Ok([total_issued_amount |-> total_issued_amount,
            maturity_date |-> maturity_date,
            nominal_currency |-> nominal_currency,
            nominal_value_per_unit |-> nominal_value_per_unit,
            interest_rate |-> interest_rate,
            seniority |-> seniority]))))))))))

\* The fields ReferenceData::from_xml reads from `FinInstrmGnlAttrbts` and
\* `Issr` (lines 337-342).
ReferenceData_general(elem, gen_attrs, K(_)) ==
    and_then(get_child(gen_attrs, "Id"), LAMBDA id :
    and_then(get_child(gen_attrs, "FullNm"), LAMBDA full_nm :
    and_then(get_child(gen_attrs, "ClssfctnTp"), LAMBDA clssfctn_tp :
    and_then(get_child(gen_attrs, "CmmdtyDerivInd"), LAMBDA ind :
    and_then(parse_bool(ind.text), LAMBDA is_commodities_derivative :
    and_then(get_child(elem, "Issr"), LAMBDA issr :
    and_then(get_child(gen_attrs, "ShrtNm"), LAMBDA shrt_nm :
        K([isin |-> id.text,
           full_name |-> full_nm.text,
           cfi |-> clssfctn_tp.text,
           is_commodities_derivative |-> is_commodities_derivative,
           issuer_lei |-> issr.text,
           fisn |-> shrt_nm.text]))))))))

\* impl FromXml for ReferenceData
ReferenceData_from_xml(elem) ==
    and_then(get_child(elem, "FinInstrmGnlAttrbts"), LAMBDA gen_attrs :
    ReferenceData_general(elem, gen_attrs, LAMBDA general :
    and_then(get_child(elem, "TradgVnRltdAttrbts"), LAMBDA venue_elem :
    and_then(TradingVenueAttributes_from_xml(venue_elem), LAMBDA trading_venue_attrs :
    and_then(get_child(gen_attrs, "NtnlCcy"), LAMBDA ntnl_ccy :
    and_then(from_xml_option_for(TechnicalAttributes_from_xml, find_child(elem, "TechAttrbts")),
             LAMBDA technical_attributes :
    and_then(from_xml_option_for(DebtAttributes_from_xml, find_child(elem, "DebtInstrmAttrbts")),
             LAMBDA debt_attributes :
    and_then(from_xml_option_for(DerivativeAttributes_from_xml,
                                 find_child(elem, "DerivInstrmAttrbts")),
             LAMBDA derivative_attributes :
        Ok([isin |-> general.isin,
            full_name |-> general.full_name,
            cfi |-> general.cfi,
            is_commodities_derivative |-> general.is_commodities_derivative,
            issuer_lei |-> general.issuer_lei,
            fisn |-> general.fisn,
            trading_venue_attrs |-> trading_venue_attrs,
            notional_currency |-> ntnl_ccy.text,
            technical_attributes |-> technical_attributes,
            debt_attributes |-> debt_attributes,
            derivative_attributes |-> derivative_attributes])))))))))

\* T::from_xml(elem) for the type T named ty.
from_xml(ty, elem) ==
    CASE ty = "Term" -> Term_from_xml(elem)
      [] ty = "FloatingRate" -> FloatingRate_from_xml(elem)
      [] ty = "InterestRate" -> InterestRate_from_xml(elem)
      [] ty = "DebtSeniority" -> DebtSeniority_from_xml(elem)
      [] ty = "TransactionType" -> TransactionType_from_xml(elem)
      [] ty = "FinalPriceType" -> FinalPriceType_from_xml(elem)
      [] ty = "FxType" -> FxType_from_xml(elem)
      [] ty = "BaseProduct" -> BaseProduct_from_xml(elem)
      [] ty = "CommodityDerivativeAttributes" -> CommodityDerivativeAttributes_from_xml(elem)
      [] ty = "InterestRateDerivativeAttributes" -> InterestRateDerivativeAttributes_from_xml(elem)
      [] ty = "FxDerivativeAttributes" -> FxDerivativeAttributes_from_xml(elem)
      [] ty = "Index" -> Index_from_xml(elem)
      [] ty = "UnderlyingSingle" -> UnderlyingSingle_from_xml(elem)
      [] ty = "UnderlyingBasket" -> UnderlyingBasket_from_xml(elem)
      [] ty = "DerivativeUnderlying" -> DerivativeUnderlying_from_xml(elem)
      [] ty = "StrikePrice" -> StrikePrice_from_xml(elem)
      [] ty = "AssetClassSpecificAttributes" -> AssetClassSpecificAttributes_from_xml(elem)
      [] ty = "DerivativeAttributes" -> DerivativeAttributes_from_xml(elem)

\* from_xml_option that turns a failed conversion into Ok(None).
from_xml_option_lenient(ty, elem) ==
    IF elem.some
    THEN LET r == from_xml(ty, elem.val)
         IN  IF r.ok THEN Ok(Some(r.val)) ELSE Ok(None)
    ELSE Ok(None)

\* T::from_xml_option(elem) for the type T named ty.
from_xml_option(ty, elem) ==
    LET T_from_xml(e) == from_xml(ty, e)
    IN  from_xml_option_for(T_from_xml, elem)

FromXmlTypes ==
    {"Term", "FloatingRate", "InterestRate", "DebtSeniority",
     "TransactionType", "FinalPriceType", "FxType", "BaseProduct",
     "CommodityDerivativeAttributes", "InterestRateDerivativeAttributes",
     "FxDerivativeAttributes", "Index", "UnderlyingSingle", "UnderlyingBasket",
     "DerivativeUnderlying", "StrikePrice", "AssetClassSpecificAttributes",
     "DerivativeAttributes"}

(***************************************************************************)
(* The elements the mapper is called on.                                   *)
(***************************************************************************)
Leaf(n, t) == Element(n, <<>>, t)

\* The sequences of at most two elements of S.
UpToTwo(S) ==
    {<<>>} \cup {<<a>> : a \in S} \cup {<<a, b>> : a \in S, b \in S}

\* Code strings that are in no table of a closed enumeration: codes that
\* do not exist, a variant's name, a code in the wrong case, no text.
BadCodes == {"ZZZZ", "Senior", "futr", ""}

\* The enum-valued elements: every code of the enum's table, and codes that
\* are not in it.
EnumElems(tag, table) == {Leaf(tag, c) : c \in DOMAIN table \cup BadCodes}

TermElems ==
    {Element("Term", k, "") :
        k \in {<<Leaf("Val", "3"), Leaf("Unit", "MNTH")>>,
               <<Leaf("Unit", "YEAR"), Leaf("Val", "25")>>,
               <<Leaf("Val", "x"), Leaf("Unit", "MNTH")>>,
               <<Leaf("Val", "3"), Leaf("Unit", "ZZZZ")>>,
               <<Leaf("Val", "3")>>, <<Leaf("Unit", "MNTH")>>, <<>>}
               \cup {<<Leaf("Val", "3"), u>> : u \in EnumElems("Unit", TermUnit)}}

RefRateElems ==
    {Element("RefRate", k, "") :
        k \in {<<Leaf("Indx", "EURO")>>, <<Leaf("Nm", "LIBO")>>,
               <<Leaf("Nm", "Sonia")>>,
               <<Leaf("Nm", "Sonia"), Leaf("Indx", "EURO")>>, <<>>}}

\* The Term children a Fltg element is given.
FltgTerms ==
    {Element("Term", <<Leaf("Val", "3"), Leaf("Unit", "MNTH")>>, ""),
     Element("Term", <<Leaf("Val", "3"), Leaf("Unit", "ZZZZ")>>, "")}

SpreadElems == {Leaf("BsisPtSprd", "25"), Leaf("BsisPtSprd", "x")}

Opt(S) == {<<>>} \cup {<<x>> : x \in S}

FltgElems ==
    {Element("Fltg", r \o t \o b, "") :
        r \in Opt(RefRateElems), t \in Opt(FltgTerms), b \in Opt(SpreadElems)}
        \cup {Element("Fltg", <<Element("RefRate", <<i>>, "")>>, "") :
                 i \in EnumElems("Indx", IndexCode) \cup EnumElems("Nm", IndexCode)}

FxdElems == {Leaf("Fxd", t) : t \in {"7.5", "3", "abc", ""}}

\* The Fltg children an IntrstRate element is given.
RateFltgs ==
    {Element("Fltg", <<Element("RefRate", <<Leaf("Indx", "EURO")>>, ""),
                       Leaf("BsisPtSprd", "25")>>, ""),
     Element("Fltg", <<Element("RefRate", <<Leaf("Nm", "Sonia")>>, ""),
                       Leaf("BsisPtSprd", "x")>>, ""),
     Element("Fltg", <<Element("RefRate", <<>>, "")>>, ""),
     Element("Fltg", <<>>, "")}

InterestRateElems ==
    {Element("IntrstRate", k, "") :
        k \in UpToTwo(FxdElems \cup RateFltgs \cup {Leaf("Amt", "3")})}

DebtSeniorityElems == EnumElems("DebtSnrty", DebtSeniority)

TransactionTypeElems == EnumElems("TxTp", TransactionType)

FinalPriceTypeElems == EnumElems("FnlPricTp", FinalPriceType)

FxTypeElems == EnumElems("FxTp", FxType)

\* The code children of an element that holds a product: code combinations
\* the taxonomy accepts, combinations it rejects, and no base code.
CodeLeaves ==
    {<<Leaf("BasePdct", "AGRI"), Leaf("SubPdct", "GROS"), Leaf("AddtlSubPdct", "FWHT")>>,
     <<Leaf("BasePdct", "NRGY"), Leaf("SubPdct", "OILP")>>,
     <<Leaf("BasePdct", "INFL")>>,
     <<Leaf("BasePdct", "AGRI"), Leaf("SubPdct", "GROS")>>,
     <<Leaf("BasePdct", "AGRI"), Leaf("SubPdct", "POTA"), Leaf("AddtlSubPdct", "X")>>,
     <<Leaf("BasePdct", "AGRI")>>,
     <<Leaf("BasePdct", "MCEX"), Leaf("SubPdct", "GROS")>>,
     <<Leaf("SubPdct", "GROS")>>,
     <<>>}

\* The elements BaseProduct::from_xml is called on.
ProductElems == {Element("Agrcltrl", k, "") : k \in CodeLeaves}

\* The elements one level above: the product element is their first child,
\* or comes after another child, or they hold codes of their own as well.
ProductWrappers ==
    {Element("Agrcltrl", <<e>>, "") : e \in ProductElems}
        \cup {Element("Agrcltrl", <<Leaf("Nm", "a"), e>>, "") :
                 e \in {Element("GrnOilSeed", <<Leaf("BasePdct", "INFL")>>, "")}}
        \cup {Element("Agrcltrl", k \o <<e>>, "") :
                 k \in {<<Leaf("BasePdct", "AGRI")>>,
                        <<Leaf("BasePdct", "AGRI"), Leaf("SubPdct", "GROS")>>},
                 e \in {Element("GrnOilSeed", <<Leaf("BasePdct", "INFL")>>, ""),
                        Element("GrnOilSeed", <<Leaf("BasePdct", "X")>>, ""),
                        Element("GrnOilSeed", <<>>, "")}}

PdctElems ==
    {Element("Pdct", k, "") :
        k \in {<<>>} \cup {<<c>> : c \in ProductElems \cup ProductWrappers}
               \cup {<<Element("Agrcltrl", <<>>, ""),
                       Element("Nrgy", <<Leaf("BasePdct", "INFL")>>, "")>>}}

CommodityElems ==
    {Element("Cmmdty", pd \o tx \o fp, "") :
        pd \in Opt(PdctElems),
        tx \in Opt({Leaf("TxTp", "FUTR"), Leaf("TxTp", "ZZZZ")}),
        fp \in Opt({Leaf("FnlPricTp", "EXOF"), Leaf("FnlPricTp", "ZZZZ")})}

\* The sequences of at most three elements of S.
UpToThree(S) == UpToTwo(S) \cup {<<a, b, c>> : a \in S, b \in S, c \in S}

\* A floating rate that decodes, under the tag n.
RateNamed(n) == Element(n, <<Element("RefRate", <<Leaf("Indx", "EURO")>>, "")>>, "")

IntrstElems ==
    {Element("Intrst", k, "") :
        k \in {<<RateNamed("IntrstRate")>>,
               <<RateNamed("IntrstRate"),
                 Element("FirstLegIntrstRate", <<Leaf("Fxd", "7.5")>>, ""),
                 Leaf("OtherNtnlCcy", "a")>>,
               <<RateNamed("IntrstRate"),
                 Element("OthrLegIntrstRate", <<Leaf("Fxd", "abc")>>, "")>>,
               <<Leaf("IntrstRate", "")>>,
               <<>>}}

FxElems ==
    {Element("FX", k, "") :
        k \in {<<>>, <<Leaf("OthrNtnlCcy", "a"), Leaf("FxTp", "FXCR")>>,
               <<Leaf("FxTp", "ZZZZ")>>}}

\* The children an AsstClssSpcfcAttrbts element is given.
AssetClassChildren ==
    {Element("Cmmdty", <<Element("Pdct", <<Element("Infltn", <<Leaf("BasePdct", "INFL")>>, "")>>, "")>>, ""),
     Element("Cmmdty", <<>>, ""),
     Element("Intrst", <<RateNamed("IntrstRate")>>, ""),
     Element("Intrst", <<>>, ""),
     Element("FX", <<Leaf("FxTp", "FXMJ")>>, ""),
     Element("FX", <<Leaf("FxTp", "ZZZZ")>>, ""),
     Leaf("Othr", "")}

AssetClassElems ==
    {Element("AsstClssSpcfcAttrbts", k, "") : k \in UpToTwo(AssetClassChildren)}

\* AsstClssSpcfcAttrbts elements with three children.
AssetClassTriples ==
    {Element("AsstClssSpcfcAttrbts", <<a, b, c>>, "") :
        a \in AssetClassChildren, b \in AssetClassChildren, c \in AssetClassChildren}

IndexElems ==
    {Element("Indx", k, "") :
        k \in {<<Leaf("ISIN", "a"), RateNamed("Nm")>>, <<RateNamed("Nm")>>,
               <<Leaf("ISIN", "a")>>, <<Leaf("Nm", "")>>}}

SingleElems ==
    {Element("Sngl", k, "") :
        k \in UpToTwo({Leaf("ISIN", "a"), Leaf("LEI", "b"),
                       Element("Indx", <<RateNamed("Nm")>>, ""),
                       Element("Indx", <<>>, ""), Leaf("Othr", "")})}

BasketElems ==
    {Element("Bskt", k, "") :
        k \in UpToThree({Leaf("ISIN", "a"), Leaf("ISIN", "b"), Leaf("LEI", "a"),
                         Leaf("Othr", "")})}

UnderlyingElems ==
    {Element("UndrlygInstrm", k, "") :
        k \in UpToTwo({Element("Sngl", <<Leaf("ISIN", "a")>>, ""),
                       Element("Sngl", <<>>, ""),
                       Element("Bskt", <<Leaf("ISIN", "a"), Leaf("LEI", "b")>>, ""),
                       Element("Bskt", <<Leaf("Othr", "")>>, ""),
                       Leaf("Othr", "")})}

PricElems ==
    {Element("Pric", k, "") :
        k \in {<<Element("MntryVal", <<Leaf("Amt", "7.5"), Leaf("Ccy", "a")>>, "")>>,
               <<Element("MntryVal", <<Leaf("Amt", "abc")>>, "")>>,
               <<Element("MntryVal", <<Leaf("Ccy", "a")>>, ""), Leaf("Pctg", "3")>>,
               <<Leaf("Pctg", "3")>>, <<Leaf("Yld", "25")>>, <<Leaf("BsisPts", "7.5")>>,
               <<Leaf("BsisPts", "3"), Leaf("Pctg", "25")>>,
               <<Leaf("Amt", "3")>>, <<Leaf("Pctg", "")>>, <<>>}}

NoPricElems ==
    {Element("NoPric", k, "") :
        k \in {<<Leaf("Pdg", "PNDG"), Leaf("Ccy", "a")>>, <<Leaf("Pdg", "PNDG")>>,
               <<Leaf("Pdg", "a")>>, <<Leaf("Ccy", "a")>>, <<>>}}

StrikePriceElems ==
    {Element("StrkPric", k, "") :
        k \in {<<>>, <<Leaf("Othr", "")>>}
               \cup {<<c>> : c \in PricElems \cup NoPricElems}
               \cup {<<Element("NoPric", <<Leaf("Pdg", "PNDG")>>, ""), Leaf("Pric", "")>>,
                     <<Element("NoPric", <<Leaf("Pdg", "PNDG")>>, ""),
                       Element("Pric", <<Leaf("Yld", "3")>>, "")>>}}

\* The children a DerivInstrmAttrbts element is given: for each known tag
\* one that decodes and one that does not, and a tag that is not known.
DerivativeChildren ==
    {Leaf("XpryDt", "2024-01-15"), Leaf("XpryDt", "a"),
     Leaf("PricMltplr", "7.5"), Leaf("PricMltplr", "a"),
     Element("UndrlygInstrm", <<Element("Sngl", <<Leaf("ISIN", "a")>>, "")>>, ""),
     Element("UndrlygInstrm", <<>>, ""),
     Leaf("OptnTp", "CALL"), Leaf("OptnTp", "ZZZZ"),
     Element("StrkPric", <<Element("Pric", <<Leaf("Pctg", "3")>>, "")>>, ""),
     Element("StrkPric", <<>>, ""),
     Leaf("OptnExrcStyle", "EURO"), Leaf("OptnExrcStyle", "ZZZZ"),
     Leaf("DlvryTp", "CASH"), Leaf("DlvryTp", "ZZZZ"),
     Element("AsstClssSpcfcAttrbts", <<Element("FX", <<>>, "")>>, ""),
     Element("AsstClssSpcfcAttrbts", <<Leaf("Othr", "")>>, ""),
     Leaf("Othr", "")}

DerivativeElems ==
    {Element("DerivInstrmAttrbts", k, "") : k \in UpToTwo(DerivativeChildren)}
        \cup {Element("DerivInstrmAttrbts", <<c>>, "") :
                 c \in EnumElems("OptnTp", OptionType)
                        \cup EnumElems("OptnExrcStyle", OptionExerciseStyle)
                        \cup EnumElems("DlvryTp", DeliveryType)}

FromXmlElems ==
    TermElems \cup FltgElems \cup InterestRateElems \cup DebtSeniorityElems
        \cup TransactionTypeElems \cup FinalPriceTypeElems \cup FxTypeElems
        \cup ProductElems \cup ProductWrappers \cup CommodityElems
        \cup IntrstElems \cup FxElems \cup AssetClassElems \cup IndexElems
        \cup SingleElems \cup BasketElems \cup UnderlyingElems
        \cup StrikePriceElems \cup DerivativeElems

\* DerivInstrmAttrbts elements with three children.
DerivativeTriples ==
    {Element("DerivInstrmAttrbts", <<a, b, c>>, "") :
        a \in DerivativeChildren, b \in DerivativeChildren, c \in DerivativeChildren}

\* The elements whose text IndexName::from_str is called on: every code of
\* the IndexCode table, strings that are no code, and free text.
IndexNameElems ==
    EnumElems("Indx", IndexCode) \cup {Leaf("Nm", t) : t \in {"Sonia", "euro", "a"}}

\* The elements date_or_none is called on: dates, dates followed by a time
\* or an offset, texts that are no date, and texts shorter than a date.
DateElems ==
    {Leaf("MtrtyDt", t) :
        t \in DOMAIN DateTexts \cup DOMAIN First10
               \cup {"2024-13-45", "2024-01-1", "2024-1-5", "2024", "a", ""}}

\* The elements PublicationPeriod::from_xml is called on: a FrDtToDt with
\* FrDt and ToDt children, with a FrDt child alone, with a date as its own
\* text, a direct FrDt child, and texts that are no dates.
FrDtToDtElems ==
    {Element("FrDtToDt", fr \o to, t) :
        fr \in Opt({Leaf("FrDt", "2024-01-15"), Leaf("FrDt", "a")}),
        to \in Opt({Leaf("ToDt", "2030-12-31"), Leaf("ToDt", "2030-12-31+01:00"),
                    Leaf("ToDt", "2024-13-45"), Leaf("ToDt", "2024")}),
        t \in {"", "2024-01-15"}}

PublicationPeriodElems ==
    {Element("PblctnPrd", k, "") :
        k \in {<<>>} \cup {<<f>> : f \in FrDtToDtElems}
               \cup {<<Leaf("FrDt", t)>> : t \in {"2024-01-15", "2030-12-31", "a", ""}}
               \cup {<<Leaf("FrDt", "2030-12-31"), f>> : f \in FrDtToDtElems}}

InitFromXml ==
    /\ \/ x_ty \in FromXmlTypes /\ x_arg \in OptionOf(FromXmlElems)
       \/ x_ty = "AssetClassSpecificAttributes"
            /\ x_arg \in {Some(e) : e \in AssetClassTriples}
       \/ x_ty = "DerivativeAttributes"
            /\ x_arg \in {Some(e) : e \in DerivativeTriples}
       \/ x_ty = "IndexName" /\ x_arg \in {Some(e) : e \in IndexNameElems}
       \/ x_ty = "NaiveDate" /\ x_arg \in OptionOf(DateElems)
       \/ x_ty = "PublicationPeriod" /\ x_arg \in {Some(e) : e \in PublicationPeriodElems}
    /\ x_res = None
    /\ XmlIdle
    /\ ProductIdle
    /\ DownloadIdle
    /\ SqlIdle

\* The call IndexName::from_str(text) on the text of an element.
IndexNameFromStr ==
    /\ ~x_res.some
    /\ x_ty = "IndexName"
    /\ x_res' = Some([op |-> "from_str", res |-> IndexName_from_str(x_arg.val.text)])
    /\ UNCHANGED <<x_ty, x_arg, xml_vars, product_vars,
                   download_vars, sql_vars>>

\* The call date_or_none(elem).
DateOrNone ==
    /\ ~x_res.some
    /\ x_ty = "NaiveDate"
    /\ x_res' = Some([op |-> "date_or_none", res |-> date_or_none(x_arg)])
    /\ UNCHANGED <<x_ty, x_arg, xml_vars, product_vars,
                   download_vars, sql_vars>>

\* The call T::from_xml(elem).
FromXml ==
    /\ ~x_res.some
    /\ x_ty \in FromXmlTypes
    /\ x_arg.some
    /\ x_res' = Some([op |-> "from_xml", res |-> from_xml(x_ty, x_arg.val)])
    /\ UNCHANGED <<x_ty, x_arg, xml_vars, product_vars,
                   download_vars, sql_vars>>

\* The call T::from_xml_option(elem).
FromXmlOption ==
    /\ ~x_res.some
    /\ x_ty \in FromXmlTypes
    /\ x_res' = Some([op |-> "from_xml_option", res |-> from_xml_option(x_ty, x_arg)])
    /\ UNCHANGED <<x_ty, x_arg, xml_vars, product_vars,
                   download_vars, sql_vars>>

\* The call PublicationPeriod::from_xml(elem).
PublicationPeriodFromXml ==
    /\ ~x_res.some
    /\ x_ty = "PublicationPeriod"
    /\ x_res' = Some([op |-> "from_xml", res |-> PublicationPeriod_from_xml(x_arg.val)])
    /\ UNCHANGED <<x_ty, x_arg, xml_vars, product_vars,
                   download_vars, sql_vars>>

NextFromXml ==
    FromXml \/ FromXmlOption \/ IndexNameFromStr \/ DateOrNone \/ PublicationPeriodFromXml

SpecFromXml == InitFromXml /\ [][NextFromXml]_vars

(***************************************************************************)
(* The record stream: IterRefData (xml/mod.rs).                            *)
(***************************************************************************)
\* Most RefData elements of a document handed to IterRefData.
MaxRecords == 3

\* The tokens of `<n>inner</n>`.
Tag(n, inner) == <<StartTok(n)>> \o inner \o <<EndTok(n)>>

\* The tokens of `<n>t</n>`.
TextTag(n, t) == Tag(n, <<TextTok(t)>>)

\* The tokens of a FinInstrmGnlAttrbts element.
GnlAttrs(isin, ind) ==
    Tag("FinInstrmGnlAttrbts",
        TextTag("Id", isin) \o TextTag("FullNm", "a") \o TextTag("ClssfctnTp", "a")
            \o TextTag("CmmdtyDerivInd", ind) \o TextTag("ShrtNm", "a")
            \o TextTag("NtnlCcy", "a"))

\* The tokens of a TradgVnRltdAttrbts element.
VenueAttrs ==
    Tag("TradgVnRltdAttrbts",
        TextTag("Id", "a") \o TextTag("IssrReq", "true")
            \o TextTag("FrstTradDt", "2024-01-15T00:00:00Z"))

\* The tokens of a RefData element with every mandatory child, followed by
\* the children `more`.
Record(isin, ind, more) ==
    Tag("RefData", GnlAttrs(isin, ind) \o TextTag("Issr", "b") \o VenueAttrs \o more)

TechTokens == Tag("TechAttrbts", Tag("PblctnPrd", TextTag("FrDt", "2024-01-15")))

\* The tokens of a DebtInstrmAttrbts element whose amount has the attributes
\* a and whose maturity date is written t.
DebtTokens(a, t) ==
    Tag("DebtInstrmAttrbts",
        <<StartTokAttr("TtlIssdNmnlAmt", a), TextTok("25"), EndTok("TtlIssdNmnlAmt")>>
            \o TextTag("MtrtyDt", t) \o TextTag("NmnlValPerUnit", "3")
            \o Tag("IntrstRate", TextTag("Fxd", "7.5")))

\* The RefData elements of the documents, as tokens: records that map,
\* records whose mapping fails, a record whose mapping panics, and a
\* record written as an empty-element tag.
Records ==
    {Record("a", "true", <<>>),
     Record("b", "false",
            TechTokens \o DebtTokens({<<"Ccy", "a">>}, "2030-12-31")
                \o Tag("DerivInstrmAttrbts", TextTag("OptnTp", "CALL"))),
     Record("a", "x", <<>>),
     Tag("RefData", <<>>),
     Record("a", "true", Tag("DerivInstrmAttrbts", Tag("Othr", <<>>))),
     Record("b", "true", DebtTokens(NoAttrs, "2030-12-31")),
     Record("b", "true", DebtTokens({<<"Ccy", "a">>}, "2024")),
     <<EmptyTok("RefData")>>}

\* What stands between the records of a document.
Fillers == {<<>>, TextTag("Hdr", "a")}

\* The tokens of the sequence rs of token sequences, one after the other.
RECURSIVE Concat(_)
Concat(rs) == IF rs = <<>> THEN <<>> ELSE Head(rs) \o Concat(Tail(rs))

\* IterRefData::next with the cursor at p: the next item of the element
\* iterator, mapped when it is Ok.
IterRefData_next(d, p) ==
    LET r == scan(d, p)
    IN  IF r.item = Aborted THEN r
        ELSE IF ~r.item.some THEN r
        ELSE IF r.item.val.ok
        THEN LET m == ReferenceData_from_xml(r.item.val.val)
             IN  IF m = Aborted THEN [r EXCEPT !.item = Aborted]
                 ELSE [r EXCEPT !.item = Some(m)]
        ELSE r

\* IterRefData::new: the element iterator is constructed with "RefData".
InitRefData ==
    /\ tag_names = {"RefData"}
    /\ \E n \in 0..MaxRecords : \E rs \in [1..n -> Records] : \E f \in Fillers :
           doc = Tag("Document", f \o Concat(rs))
    /\ pos = 1
    /\ yielded = <<>>
    /\ last = None
    /\ done = FALSE
    /\ ProductIdle
    /\ FromXmlIdle
    /\ DownloadIdle
    /\ SqlIdle

\* IterRefData::next returns Some(item).
RefDataItem ==
    LET r == IterRefData_next(doc, pos)
    IN  /\ last # Aborted
        /\ r.item # Aborted
        /\ r.item.some
        /\ pos' = r.pos
        /\ yielded' = Append(yielded, [res |-> r.item.val, at |-> r.at])
        /\ last' = r.item
        /\ UNCHANGED <<tag_names, doc, done, product_vars, from_xml_vars,
                       download_vars, sql_vars>>

\* IterRefData::next returns None.
RefDataNone ==
    LET r == IterRefData_next(doc, pos)
    IN  /\ last # Aborted
        /\ r.item # Aborted
        /\ ~r.item.some
        /\ pos' = r.pos
        /\ last' = None
        /\ done' = TRUE
        /\ UNCHANGED <<tag_names, doc, yielded, product_vars, from_xml_vars,
                       download_vars, sql_vars>>

\* IterRefData::next panics: the call returns nothing and no later call is
\* made.
RefDataPanic ==
    LET r == IterRefData_next(doc, pos)
    IN  /\ last # Aborted
        /\ r.item = Aborted
        /\ pos' = r.pos
        /\ last' = Aborted
        /\ UNCHANGED <<tag_names, doc, yielded, done, product_vars, from_xml_vars,
                       download_vars, sql_vars>>

NextRefData == RefDataItem \/ RefDataNone \/ RefDataPanic

SpecRefData == InitRefData /\ [][NextRefData]_vars

(***************************************************************************)
(* The download: FirdsDoc::download_zip_with_progress (download/mod.rs).   *)
(* The call is a sequence of steps, one per stretch of code between two    *)
(* places where it waits or touches the file system; every file system     *)
(* call and every read of the response can fail.                           *)
(***************************************************************************)
\* The chunks a response delivers: sequences of bytes.
Chunks == {<<1>>, <<9>>, <<1, 9>>}

\* The content of a file that is there before the call.
OldContent == <<7>>

\* The response bodies.
Bodies == UNION {[1..n -> Chunks] : n \in 0..MaxChunks}

\* The bytes of a sequence of chunks, in order.
RECURSIVE Flatten(_)
Flatten(chunks) == IF chunks = <<>> THEN <<>> ELSE Head(chunks) \o Flatten(Tail(chunks))

\* The digest of a content: a function of its bytes and their places (one
\* hexadecimal digit stands for the sixteen bytes of an MD5 digest, so
\* different contents can have the same digest).
RECURSIVE Md5(_)
Md5(bytes) ==
    IF bytes = <<>> THEN 4
    ELSE (Md5(SubSeq(bytes, 1, Len(bytes) - 1)) + Len(bytes) * bytes[Len(bytes)]) % 16

\* base16ct::lower::encode_string
lower_encode_string(hash) ==
    <<"0", "1", "2", "3", "4", "5", "6", "7", "8", "9", "a", "b", "c", "d", "e", "f">>[hash + 1]

\* The same digest written with upper-case digits.
upper_encode_string(hash) ==
    <<"0", "1", "2", "3", "4", "5", "6", "7", "8", "9", "A", "B", "C", "D", "E", "F">>[hash + 1]

\* verify_file without the comparison of the digests.
verify_file_unchecked(checksum, content, open_ok) ==
    IF checksum.some
    THEN IF ~open_ok THEN Err("Io") ELSE Ok("()")
    ELSE Err("NoMd5Sum")

\* FirdsDoc::verify_file on a file with this content; open_ok says whether
\* the file can be opened and read.
verify_file(checksum, content, open_ok) ==
    IF checksum.some
    THEN IF ~open_ok THEN Err("Io")
         ELSE IF lower_encode_string(Md5(content)) # checksum.val
         THEN Err("Md5CheckFailed")
         ELSE Ok("()")
    ELSE Err("NoMd5Sum")

\* The checksums a FirdsDoc can hold: none, the digest of a body in lower or
\* upper case, or something else.
Checksums ==
    {None} \cup {Some(lower_encode_string(Md5(Flatten(b)))) : b \in Bodies}
           \cup {Some(upper_encode_string(Md5(Flatten(b)))) : b \in Bodies}

InitDownload ==
    /\ to_dir \in BOOLEAN
    /\ fpath \in IF to_dir THEN {None, Some(OldContent)} ELSE {None}
    /\ fpath_part \in IF to_dir THEN {None, Some(<<1>>)} ELSE {None}
    /\ \E overwrite \in BOOLEAN, verify \in BOOLEAN, checksum \in Checksums, body \in Bodies :
           dl_args = [overwrite |-> overwrite, verify |-> verify, checksum |-> checksum,
                      body |-> body, fpath |-> fpath]
    /\ dl_pc = "start"
    /\ dl_sent = 0
    /\ stream = <<>>
    /\ dl_ret = None
    /\ XmlIdle
    /\ ProductIdle
    /\ FromXmlIdle
    /\ SqlIdle

\* The call returns r.
Return(r) == dl_ret' = Some(r) /\ dl_pc' = "returned"

\* Lines 201-216: create the directory, refuse to overwrite, remove an old
\* `.part` file.
Begin ==
    /\ dl_pc = "start"
    /\ \E create_dir_ok \in BOOLEAN, remove_ok \in BOOLEAN :
          IF ~to_dir /\ ~create_dir_ok
          THEN Return(Err("Io")) /\ UNCHANGED <<to_dir, fpath_part>>
          ELSE /\ to_dir' = TRUE
               /\ IF ~dl_args.overwrite /\ fpath.some
                  THEN Return(Err("FileExists")) /\ UNCHANGED fpath_part
                  ELSE IF fpath_part.some /\ ~remove_ok
                  THEN Return(Err("Io")) /\ UNCHANGED fpath_part
                  ELSE /\ fpath_part' = None
                       /\ dl_pc' = "send"
                       /\ UNCHANGED dl_ret
    /\ UNCHANGED <<fpath, dl_args, dl_sent, stream, xml_vars, product_vars, from_xml_vars,
                   sql_vars>>

\* Lines 217-221: send the request, create the `.part` file, take the
\* response's stream of chunks.
Send ==
    /\ dl_pc = "send"
    /\ dl_sent' = dl_sent + 1
    /\ \E send_ok \in BOOLEAN, create_ok \in BOOLEAN :
          IF ~send_ok
          THEN Return(Err("Reqwest")) /\ UNCHANGED <<fpath_part, stream>>
          ELSE IF ~create_ok
          THEN Return(Err("Io")) /\ UNCHANGED <<fpath_part, stream>>
          ELSE /\ fpath_part' = Some(<<>>)
               /\ stream' = dl_args.body
               /\ dl_pc' = "stream"
               /\ UNCHANGED dl_ret
    /\ UNCHANGED <<to_dir, fpath, dl_args, xml_vars, product_vars, from_xml_vars, sql_vars>>

\* Lines 222-227, one turn of the loop: the stream gives a chunk, which is
\* written to the `.part` file (write_all can fail after writing a part of
\* it), or an error, or ends.
StreamNext ==
    /\ dl_pc = "stream"
    /\ \E read_ok \in BOOLEAN, write_ok \in BOOLEAN :
          IF ~read_ok
          THEN Return(Err("Reqwest")) /\ UNCHANGED <<fpath_part, stream>>
          ELSE IF stream = <<>>
          THEN dl_pc' = "verify" /\ UNCHANGED <<fpath_part, stream, dl_ret>>
          ELSE IF write_ok
          THEN /\ fpath_part' = Some(fpath_part.val \o Head(stream))
               /\ stream' = Tail(stream)
               /\ UNCHANGED <<dl_pc, dl_ret>>
          ELSE /\ \E k \in 0..(Len(Head(stream)) - 1) :
                     fpath_part' = Some(fpath_part.val \o SubSeq(Head(stream), 1, k))
               /\ Return(Err("Io"))
               /\ UNCHANGED stream
    /\ UNCHANGED <<to_dir, fpath, dl_args, dl_sent, xml_vars, product_vars, from_xml_vars,
                   sql_vars>>

\* Lines 228-230: verify the `.part` file when asked to.
Verify ==
    /\ dl_pc = "verify"
    /\ \E open_ok \in BOOLEAN :
          LET r == verify_file(dl_args.checksum, fpath_part.val, open_ok)
          IN  IF dl_args.verify /\ ~r.ok
              THEN Return(r)
              ELSE dl_pc' = "rename" /\ UNCHANGED dl_ret
    /\ UNCHANGED <<to_dir, fpath, fpath_part, dl_args, dl_sent, stream, xml_vars,
                   product_vars, from_xml_vars, sql_vars>>

\* Lines 231-232: rename the `.part` file to the final name.
Rename ==
    /\ dl_pc = "rename"
    /\ \E rename_ok \in BOOLEAN :
          IF rename_ok
          THEN /\ fpath' = fpath_part
               /\ fpath_part' = None
               /\ Return(Ok("fpath"))
          ELSE Return(Err("Io")) /\ UNCHANGED <<fpath, fpath_part>>
    /\ UNCHANGED <<to_dir, dl_args, dl_sent, stream, xml_vars, product_vars, from_xml_vars,
                   sql_vars>>

NextDownload == Begin \/ Send \/ StreamNext \/ Verify \/ Rename

SpecDownload == InitDownload /\ [][NextDownload]_vars

(***************************************************************************)
(* The record store: RefDataDbEntry (sql/to_db.rs).  A table is the        *)
(* sequence of its rows, a row's rowid its place in the sequence.          *)
(***************************************************************************)
Isins == {"A", "B"}

TradingVenues == {"X", "Y"}

\* Four days in a row, as NaiveDate::to_string writes them; a date is its
\* place in the sequence.
DateStrings == <<"2024-12-30", "2024-12-31", "2025-01-01", "2025-01-02">>

\* NaiveDate::to_string
date_to_string(d) == DateStrings[d]

\* self.valid_from - Duration::days(1)
prev_day(d) == d - 1

\* The dates an entry is valid from: every date of the model that has a day
\* before it.
ValidFroms == 2..Len(DateStrings)

\* RefDataDbEntry::new_latest(ref_data, valid_from), with the two fields of
\* ref_data that the store is searched by.
new_latest(isin, trading_venue, valid_from) ==
    [isin |-> isin, trading_venue |-> trading_venue, latest_record |-> TRUE,
     valid_from |-> valid_from, valid_to |-> None]

Entries == {new_latest(i, v, d) : i \in Isins, v \in TradingVenues, d \in ValidFroms}

\* The row INSERT INTO TradingVenueAttributes writes for the entry.
tva_row(entry) == [trading_venue |-> entry.trading_venue]

\* The row INSERT INTO ReferenceData writes for the entry, tv_attrs being
\* the rowid of its trading venue attributes.
ref_data_row(entry, tv_attrs) ==
    [isin |-> entry.isin, trading_venue_attrs_id |-> tv_attrs,
     latest_record |-> entry.latest_record,
     valid_from |-> date_to_string(entry.valid_from),
     valid_to |-> IF entry.valid_to.some
                  THEN Some(date_to_string(entry.valid_to.val)) ELSE None]

\* The WHERE clause of mark_prev_record without the trading venue.
marked_any_venue(rd, tva, entry) ==
    {id \in 1..Len(rd) :
        /\ rd[id].trading_venue_attrs_id \in 1..Len(tva)
        /\ rd[id].isin = entry.isin
        /\ ~rd[id].valid_to.some}

\* The rowids the UPDATE of mark_prev_record selects: the rows joined to
\* their trading venue attributes, of the entry's isin and trading venue,
\* whose valid_to is NULL.
marked(rd, tva, entry) ==
    {id \in 1..Len(rd) :
        /\ rd[id].trading_venue_attrs_id \in 1..Len(tva)
        /\ rd[id].isin = entry.isin
        /\ tva[rd[id].trading_venue_attrs_id].trading_venue = entry.trading_venue
        /\ ~rd[id].valid_to.some}

\* Table ReferenceData after the UPDATE of mark_prev_record.
mark_prev_record(rd, tva, entry) ==
    [id \in 1..Len(rd) |->
        IF id \in marked(rd, tva, entry)
        THEN [rd[id] EXCEPT !.valid_to = Some(date_to_string(prev_day(entry.valid_from))),
                            !.latest_record = FALSE]
        ELSE rd[id]]

\* The tables after the entries have been written with to_db, one after the
\* other, to an empty store.
RECURSIVE Imported(_)
Imported(es) ==
    IF es = <<>> THEN [tva |-> <<>>, rd |-> <<>>]
    ELSE LET before == Imported(SubSeq(es, 1, Len(es) - 1))
             tva    == Append(before.tva, tva_row(es[Len(es)]))
         IN  [tva |-> tva, rd |-> Append(before.rd, ref_data_row(es[Len(es)], Len(tva)))]

\* No two of the entries are of the same isin and trading venue.
DistinctPairs(es) ==
    \A j, k \in 1..Len(es) :
        (es[j].isin = es[k].isin /\ es[j].trading_venue = es[k].trading_venue) => j = k

\* The store after a full file has been imported (each record written with
\* to_db as a new_latest entry), the file holding each instrument once per
\* trading venue.
InitSql ==
    /\ \E n \in 0..2 : \E es \in [1..n -> Entries] :
          /\ DistinctPairs(es)
          /\ TradingVenueAttributes = Imported(es).tva
          /\ ReferenceData = Imported(es).rd
    /\ db_entry = None
    /\ db_ret = None
    /\ db_closed = {}
    /\ XmlIdle
    /\ ProductIdle
    /\ FromXmlIdle
    /\ DownloadIdle

\* r.mark_prev_record(tx) for a new_latest entry r: the UPDATE is executed
\* and the number of rows it changed returned, or the execution fails and
\* the caller gives the entry up.
MarkPrevRecord ==
    /\ ~db_entry.some
    /\ Len(TradingVenueAttributes) < MaxRows
    /\ \E entry \in Entries, execute_ok \in BOOLEAN :
          IF execute_ok
          THEN /\ ReferenceData' = mark_prev_record(ReferenceData, TradingVenueAttributes, entry)
               /\ db_closed' = db_closed \cup
                     {[id |-> id, entry |-> entry] :
                         id \in marked(ReferenceData, TradingVenueAttributes, entry)}
               /\ db_ret' = Some(Ok(Cardinality(marked(ReferenceData,
                                                        TradingVenueAttributes, entry))))
               /\ db_entry' = Some(entry)
          ELSE /\ db_ret' = Some(Err("Sqlx"))
               /\ UNCHANGED <<ReferenceData, db_closed, db_entry>>
    /\ UNCHANGED <<TradingVenueAttributes, xml_vars, product_vars, from_xml_vars,
                   download_vars>>

\* r.to_db(tx) for the entry whose mark_prev_record has run: the trading
\* venue attributes are inserted, then the ReferenceData row that refers to
\* them; either INSERT can fail.
ToDb ==
    /\ db_entry.some
    /\ \E tva_ok \in BOOLEAN, rd_ok \in BOOLEAN :
          IF ~tva_ok
          THEN /\ db_ret' = Some(Err("Sqlx"))
               /\ UNCHANGED <<TradingVenueAttributes, ReferenceData>>
          ELSE /\ TradingVenueAttributes' =
                     Append(TradingVenueAttributes, tva_row(db_entry.val))
               /\ IF ~rd_ok
                  THEN db_ret' = Some(Err("Sqlx")) /\ UNCHANGED ReferenceData
                  ELSE /\ ReferenceData' =
                             Append(ReferenceData,
                                    ref_data_row(db_entry.val,
                                                 Len(TradingVenueAttributes) + 1))
                       /\ db_ret' = Some(Ok(Len(ReferenceData) + 1))
    /\ db_entry' = None
    /\ UNCHANGED <<db_closed, xml_vars, product_vars, from_xml_vars, download_vars>>

NextSql == MarkPrevRecord \/ ToDb

SpecSql == InitSql /\ [][NextSql]_vars

(***************************************************************************)
(* The structure of a document, read off the token stream by counting      *)
(* nesting depth.                                                          *)
(***************************************************************************)
\* The index of the end tag that closes the start tag whose content begins
\* at j with `depth` tags open inside it; 0 when the stream ends first.
RECURSIVE FindEnd(_, _, _)
FindEnd(d, j, depth) ==
    IF j > Len(d) THEN 0
    ELSE IF d[j].kind = "Start" THEN FindEnd(d, j + 1, depth + 1)
    ELSE IF d[j].kind = "End"
         THEN IF depth = 0 THEN j ELSE FindEnd(d, j + 1, depth - 1)
    ELSE FindEnd(d, j + 1, depth)

MatchEnd(d, i) == FindEnd(d, i + 1, 0)

\* One past the last token of the element that starts at i.
SpanEnd(d, i) == IF MatchEnd(d, i) = 0 THEN Len(d) + 1 ELSE MatchEnd(d, i)

Closed(d, i) == MatchEnd(d, i) # 0

StartsAt(d) == {i \in 1..Len(d) : d[i].kind = "Start"}

\* j lies strictly inside the element that starts at i.
Inside(d, i, j) == i < j /\ j < SpanEnd(d, i)

\* The tokens directly inside the element that starts at i: inside it and
\* inside no element that itself starts inside it.
DirectAt(d, i) ==
    {j \in 1..Len(d) : /\ Inside(d, i, j)
                       /\ \A k \in StartsAt(d) : Inside(d, i, k) => ~Inside(d, k, j)
                       /\ \A k \in StartsAt(d) : Inside(d, i, k) => j # SpanEnd(d, k)}

\* A finite set of indices as an increasing sequence.
RECURSIVE Ascending(_)
Ascending(S) ==
    IF S = {} THEN <<>>
    ELSE LET m == CHOOSE x \in S : \A y \in S : x <= y
         IN  <<m>> \o Ascending(S \ {m})

RECURSIVE ConcatTexts(_, _)
ConcatTexts(d, idx) ==
    IF idx = <<>> THEN NoText
    ELSE d[idx[1]].text \o ConcatTexts(d, SubSeq(idx, 2, Len(idx)))

\* The direct text of the element that starts at i, in document order.
DirectText(d, i) ==
    ConcatTexts(d, Ascending({j \in DirectAt(d, i) : d[j].kind = "Text"}))

\* The tree of the element that starts at i: its direct text and, in
\* document order, the trees of the child elements whose token kind is in
\* `kinds`.
RECURSIVE DocTree(_, _, _)
DocTree(d, i, kinds) ==
    LET idx == Ascending({j \in DirectAt(d, i) : d[j].kind \in kinds})
    IN  ElementAttr(d[i].name,
                IF d[i].kind = "Start" THEN d[i].attrs ELSE NoAttrs,
                [k \in 1..Len(idx) |->
                    IF d[idx[k]].kind = "Start" THEN DocTree(d, idx[k], kinds)
                    ELSE Element(d[idx[k]].name, <<>>, NoText)],
                IF d[i].kind = "Start" THEN DirectText(d, i) ELSE NoText)

\* The number of elements named n in the tree e, e included.
RECURSIVE CountNamed(_, _)
RECURSIVE SumNamed(_, _)
CountNamed(e, n) ==
    (IF e.local_name = n THEN 1 ELSE 0) + SumNamed(e.children, n)
SumNamed(es, n) ==
    IF es = <<>> THEN 0
    ELSE CountNamed(es[1], n) + SumNamed(SubSeq(es, 2, Len(es)), n)

LastItem == yielded[Len(yielded)]

\* The last call of next() returned an item.
JustYielded == last.some /\ yielded # <<>>

(***************************************************************************)
(* Claims about the selective tag iterator and the materializer.           *)
(***************************************************************************)
\* <Bar><Foo/></Bar><Foo/>
DocC1 == <<StartTok("Bar"), EmptyTok("Foo"), EndTok("Bar"), EmptyTok("Foo")>>

\* C1: with interest set {"Foo"}, iterating over <Bar><Foo/></Bar><Foo/> to
\* the end yields exactly 2 elements.
C1_TwoItems == (doc = DocC1 /\ done) => Len(yielded) = 2

\* The occurrences of elements whose tag name is in the interest set.
Occurrences(d) ==
    {i \in 1..Len(d) : d[i].kind \in {"Start", "Empty"} /\ d[i].name \in tag_names}

\* The start tags in the interest set that lie inside no other element
\* whose start tag is in the interest set.
OutermostStarts(d) ==
    {i \in StartsAt(d) : /\ d[i].name \in tag_names
                         /\ \A k \in StartsAt(d) :
                               d[k].name \in tag_names => ~Inside(d, k, i)}

AllOk == \A k \in 1..Len(yielded) : yielded[k].res.ok

C3_OrderAndOwnText ==
    WellFormed(doc) =>
        \A k \in 1..Len(yielded) :
            /\ yielded[k].res.ok
            /\ yielded[k].res.val = DocTree(doc, yielded[k].at, {"Start"})

\* An element with text of its own and a child element with a different
\* text has been materialized from a well-formed document.
C3_Witness ==
    /\ WellFormed(doc) /\ JustYielded
    /\ Len(LastItem.res.val.children) = 1
    /\ LastItem.res.val.text # NoText
    /\ LastItem.res.val.children[1].text # NoText
    /\ LastItem.res.val.children[1].text # LastItem.res.val.text

\* The start tags inside the element at i that carry its tag name.
SameNamedInside(d, i) ==
    {k \in StartsAt(d) : Inside(d, i, k) /\ d[k].name = d[i].name}

\* C4: an element that contains elements of its own tag name ends at its own
\* end tag: the cursor is left right after that end tag, so every later
\* token is unconsumed, and each same-named start tag inside it has become
\* one of its descendants.
C4_EndsAtOwnEndTag ==
    (WellFormed(doc) /\ JustYielded /\ SameNamedInside(doc, LastItem.at) # {}) =>
        /\ pos = MatchEnd(doc, LastItem.at) + 1
        /\ LastItem.res.ok
        /\ CountNamed(LastItem.res.val, doc[LastItem.at].name)
              = 1 + Cardinality(SameNamedInside(doc, LastItem.at))

\* An element holding a same-named element has just been yielded and tokens
\* remain after its end tag.
C4_Witness ==
    /\ WellFormed(doc) /\ JustYielded
    /\ SameNamedInside(doc, LastItem.at) # {}
    /\ pos <= Len(doc)

\* The last item was materialized from an element whose end tag is missing.
Truncated == JustYielded /\ ~Closed(doc, LastItem.at)

\* C5: when the stream ends before the end tag of the element being
\* materialized, parse_start returns Ok with the partial tree read so far at
\* every open level, and the next call of next() returns None.
C5_TruncationIsOk ==
    /\ [](Truncated =>
            /\ LastItem.res.ok
            /\ LastItem.res.val = DocTree(doc, LastItem.at, {"Start"})
            /\ pos = Len(doc) + 1)
    /\ [][Truncated => (~last'.some /\ done' /\ yielded' = yielded)]_vars

\* A truncated element with a truncated child that has text.
C5_Witness ==
    /\ Truncated
    /\ \E k \in StartsAt(doc) : Inside(doc, LastItem.at, k) /\ ~Closed(doc, k)
    /\ Len(LastItem.res.val.children) >= 1
    /\ LastItem.res.val.children[Len(LastItem.res.val.children)].text # NoText

(***************************************************************************)
(* Claims about the product taxonomy decoder.                              *)
(***************************************************************************)
\* try_from_codes has been called with these codes.
Called(prod, sub_prod, further_sub_prod) ==
    /\ decoded.some
    /\ codes.val = [prod |-> prod, sub_prod |-> sub_prod,
                    further_sub_prod |-> further_sub_prod]

\* The base products that take no subproduct, with their variants.
StandAloneVariant ==
    [MCEX |-> "MultiCommodityExotic", INFL |-> "Inflation",
     OEST |-> "OfficialEconomicStatistics", OTHR |-> "Other"]

\* C8: try_from_codes(p, None, None) is Ok with the stand-alone variant for
\* each base product that takes no subproduct (MCEX, INFL, OEST, OTHR).
C8_StandAlone ==
    \A p \in DOMAIN StandAloneVariant :
        Called(p, None, None) => decoded.val = Ok(Unit(StandAloneVariant[p]))

\* try_from_codes("MCEX", None, None) has returned Ok(MultiCommodityExotic).
C8_Witness ==
    /\ Called("MCEX", None, None)
    /\ decoded.val = Ok(Unit("MultiCommodityExotic"))

\* C9: for a base product that takes no subproduct (MCEX, INFL, OTHR),
\* try_from_codes with a subproduct code supplied is Err(BadProduct).
C9_SubProductGivenIsBadProduct ==
    (/\ decoded.some
     /\ codes.val.prod \in {"MCEX", "INFL", "OTHR"}
     /\ codes.val.sub_prod.some) => decoded.val = Err("BadProduct")

\* The subproducts whose further code is mandatory.
Mandatory ==
    {[prod |-> "AGRI", sub |-> "GROS", base |-> "Agricultural",
      variant |-> "GrainsAndOilSeeds", table |-> GrainsAndOilSeedsFurtherSubProduct],
     [prod |-> "AGRI", sub |-> "SOFT", base |-> "Agricultural",
      variant |-> "Softs", table |-> SoftsFurtherSubProduct],
     [prod |-> "NRGY", sub |-> "ELEC", base |-> "Energy",
      variant |-> "Electricity", table |-> ElectricityFurtherSubProduct],
     [prod |-> "METL", sub |-> "NPRM", base |-> "Metals",
      variant |-> "NonPrecious", table |-> NonPreciousMetalsFurtherSubProduct],
     [prod |-> "METL", sub |-> "PRME", base |-> "Metals",
      variant |-> "Precious", table |-> PreciousMetalsFurtherSubProduct]}

\* C10: for every subproduct whose further code is mandatory, try_from_codes
\* with a further code of that subproduct's table is Ok with the three-level
\* nested variant, and with no further code is Err(NoSubProduct).
C10_MandatoryFurther ==
    \A m \in Mandatory :
        /\ \A f \in DOMAIN m.table :
              Called(m.prod, Some(m.sub), Some(f)) =>
                  decoded.val =
                      Ok(Variant(m.base, <<Variant(m.variant, <<Unit(m.table[f])>>)>>))
        /\ Called(m.prod, Some(m.sub), None) => decoded.val = Err("NoSubProduct")

\* try_from_codes("AGRI", Some("GROS"), Some("FWHT")) has returned
\* Ok(Agricultural(GrainsAndOilSeeds(FeedWheat))).
C10_Witness ==
    /\ Called("AGRI", Some("GROS"), Some("FWHT"))
    /\ decoded.val =
          Ok(Variant("Agricultural", <<Variant("GrainsAndOilSeeds", <<Unit("FeedWheat")>>)>>))

\* The subproducts that take no further code, with the variants of their
\* base product and of themselves.
Forbidding ==
    {[prod |-> "AGRI", base |-> "Agricultural", sub |-> c[1], variant |-> c[2]] :
        c \in {<<"POTA", "Potato">>, <<"DIRY", "Dairy">>, <<"FRST", "Forestry">>,
               <<"SEAF", "Seafood">>, <<"LSTK", "Livestock">>}}
    \cup
    {[prod |-> "NRGY", base |-> "Energy", sub |-> c[1], variant |-> c[2]] :
        c \in {<<"COAL", "Coal">>, <<"INRG", "InterEnergy">>,
               <<"RNNG", "RenewableEnergy">>, <<"LGHT", "LightEnds">>,
               <<"DIST", "Distillates">>}}
    \cup
    {[prod |-> "ENVR", base |-> "Environmental", sub |-> c[1], variant |-> c[2]] :
        c \in {<<"WTHR", "Weather">>, <<"CRBR", "CarbonRelated">>}}
    \cup
    {[prod |-> "FRGT", base |-> "Freight", sub |-> "CSHP", variant |-> "ContainerShips"]}
    \cup
    {[prod |-> "FRTL", base |-> "Fertilizer", sub |-> c[1], variant |-> c[2]] :
        c \in {<<"AMMO", "Ammonia">>, <<"DAPH", "Dap">>, <<"PTSH", "Potash">>,
               <<"SLPH", "Sulphur">>, <<"UREA", "Urea">>, <<"UAAN", "Uan">>}}
    \cup
    {[prod |-> "INDP", base |-> "IndustrialProducts", sub |-> c[1], variant |-> c[2]] :
        c \in {<<"CSTR", "Construction">>, <<"MFTG", "Manufacturing">>}}
    \cup
    {[prod |-> "PAPR", base |-> "Paper", sub |-> c[1], variant |-> c[2]] :
        c \in {<<"CBRD", "Containerboard">>, <<"NSPT", "Newsprint">>,
               <<"PULP", "Pulp">>, <<"RCVP", "RecoveredPaper">>}}
    \cup
    {[prod |-> "POLY", base |-> "Polypropylene", sub |-> "PLST", variant |-> "Plastic"]}
    \cup
    {[prod |-> "OTHC", base |-> "OtherC10", sub |-> c[1], variant |-> c[2]] :
        c \in {<<"DLVR", "Deliverable">>, <<"NDLV", "NonDeliverable">>}}

\* C11: for every subproduct that takes no further code, try_from_codes with
\* any further code supplied is Err(BadSubProduct), and with no further code
\* is Ok with the two-level variant.
C11_ForbiddenFurther ==
    \A m \in Forbidding :
        (decoded.some /\ codes.val.prod = m.prod /\ codes.val.sub_prod = Some(m.sub)) =>
            IF codes.val.further_sub_prod.some
            THEN decoded.val = Err("BadSubProduct")
            ELSE decoded.val = Ok(Variant(m.base, <<Unit(m.variant)>>))

\* try_from_codes("AGRI", Some("POTA"), Some("X")) has returned
\* Err(BadSubProduct).
C11_Witness ==
    /\ Called("AGRI", Some("POTA"), Some("X"))
    /\ decoded.val = Err("BadSubProduct")

\* The base products that have a subproduct table.
WithSubProductTable ==
    {"AGRI", "NRGY", "ENVR", "FRGT", "FRTL", "INDP", "METL", "PAPR", "POLY", "OTHC"}

\* C12: for every base product that has a subproduct table, try_from_codes
\* with no subproduct code is Err(NoSubProduct).
C12_MissingSubProduct ==
    (/\ decoded.some
     /\ codes.val.prod \in WithSubProductTable
     /\ ~codes.val.sub_prod.some) => decoded.val = Err("NoSubProduct")

\* The subproducts whose further code is optional, with their tables.
Optional ==
    {[sub |-> "OOLI", table |-> OliveOilFurtherSubProduct],
     [sub |-> "GRIN", table |-> GrainFurtherSubProduct],
     [sub |-> "NGAS", table |-> NaturalGasFurtherSubProduct],
     [sub |-> "OILP", table |-> OilFurtherSubProduct],
     [sub |-> "EMIS", table |-> EmissionsFurtherSubProduct],
     [sub |-> "WETF", table |-> WetFreightFurtherSubProduct],
     [sub |-> "DRYF", table |-> DryFreightFurtherSubProduct]}

\* The subproduct codes in the table of a base product.
SubProductTable(prod) ==
    {m.sub : m \in {x \in Forbidding : x.prod = prod}}
        \cup {m.sub : m \in {x \in Mandatory : x.prod = prod}}
        \cup (CASE prod = "AGRI" -> {"OOLI", "GRIN"}
                [] prod = "NRGY" -> {"NGAS", "OILP"}
                [] prod = "ENVR" -> {"EMIS"}
                [] prod = "FRGT" -> {"WETF", "DRYF"}
                [] OTHER -> {})

\* The further codes in the table of a subproduct.
FurtherTable(sub) ==
    UNION {DOMAIN m.table : m \in {x \in Mandatory : x.sub = sub}}
        \cup UNION {DOMAIN m.table : m \in {x \in Optional : x.sub = sub}}

\* A supplied code is unknown at its level: the product code is in no table,
\* or the subproduct code is not in the table of its base product, or the
\* further code is not in the table of its subproduct.
UnknownAtItsLevel(c) ==
    \/ c.prod \notin BaseProductCodes
    \/ /\ c.prod \in WithSubProductTable
       /\ c.sub_prod.some
       /\ c.sub_prod.val \notin SubProductTable(c.prod)
    \/ /\ c.prod \in WithSubProductTable
       /\ c.sub_prod.some
       /\ c.sub_prod.val \in SubProductTable(c.prod)
       /\ c.further_sub_prod.some
       /\ c.further_sub_prod.val \notin FurtherTable(c.sub_prod.val)

\* C13: try_from_codes is Err(BadSubProduct) whenever a supplied code is
\* unknown at its level, with or without a subproduct code.
C13_UnknownCodeIsBadSubProduct ==
    (decoded.some /\ UnknownAtItsLevel(codes.val)) => decoded.val = Err("BadSubProduct")

(***************************************************************************)
(* Claims about the FromXml record mapper.                                 *)
(***************************************************************************)
\* The named operation has been called, and returned x_res.val.res.
Returned(op) == x_res.some /\ x_res.val.op = op

\* C6: from_xml_option(None) is Ok(None); from_xml_option(Some(e)) is
\* Ok(Some(v)) exactly when from_xml(e) is Ok(v) and is Err exactly when
\* from_xml(e) is Err, so it is never Ok(None) for a present element.
C6_OptionNeverHidesFailure ==
    Returned("from_xml_option") =>
        /\ ~x_arg.some => x_res.val.res = Ok(None)
        /\ x_arg.some =>
              /\ x_res.val.res # Ok(None)
              /\ \A t \in FromXmlTypes : x_ty = t =>
                    /\ from_xml(t, x_arg.val).ok =>
                          x_res.val.res = Ok(Some(from_xml(t, x_arg.val).val))
                    /\ ~from_xml(t, x_arg.val).ok =>
                          x_res.val.res = Err(from_xml(t, x_arg.val).err)

\* from_xml_option has returned an error for a present element.
C6_Witness ==
    /\ Returned("from_xml_option")
    /\ x_arg.some
    /\ ~x_res.val.res.ok

\* The element has a direct child with this tag name.
HasChild(e, n) == \E i \in 1..Len(e.children) : e.children[i].local_name = n

\* InterestRate::from_xml has been called on an element.
RateDecoded == Returned("from_xml") /\ x_ty = "InterestRate"

\* C7 as stated: an element with a Fxd child and no Fltg child decodes to
\* Fixed, one with a Fltg child and no Fxd child decodes to Floating, and one
\* with neither is an error.
C7_ChoiceByChild ==
    RateDecoded =>
        /\ (HasChild(x_arg.val, "Fxd") /\ ~HasChild(x_arg.val, "Fltg")) =>
              x_res.val.res.ok /\ x_res.val.res.val.variant = "Fixed"
        /\ (HasChild(x_arg.val, "Fltg") /\ ~HasChild(x_arg.val, "Fxd")) =>
              x_res.val.res.ok /\ x_res.val.res.val.variant = "Floating"
        /\ (~HasChild(x_arg.val, "Fltg") /\ ~HasChild(x_arg.val, "Fxd")) =>
              ~x_res.val.res.ok

\* The first child of e with this tag name.
FirstChild(e, n) ==
    e.children[CHOOSE i \in 1..Len(e.children) :
                  /\ e.children[i].local_name = n
                  /\ \A j \in 1..(i - 1) : e.children[j].local_name # n]

\* The Fltg element decodes: it is a FloatingRate and its BsisPtSprd child,
\* when it has one, is an integer.
FltgDecodes(f) ==
    /\ from_xml("FloatingRate", f).ok
    /\ HasChild(f, "BsisPtSprd") => FirstChild(f, "BsisPtSprd").text \in DOMAIN Int32Texts

\* C7 amended: an element with a Fxd child and no Fltg child decodes to Fixed
\* when the text of its first Fxd child is a number, and is an error
\* otherwise; one with a Fltg child and no Fxd child decodes to Floating when
\* its first Fltg child decodes (as a FloatingRate, with an integer BsisPtSprd
\* if it has one), and is an error otherwise; one with neither child is the
\* error ElementNotFound.
C7_ChoiceByChildWhenPayloadDecodes ==
    RateDecoded =>
        /\ (HasChild(x_arg.val, "Fxd") /\ ~HasChild(x_arg.val, "Fltg")) =>
              IF FirstChild(x_arg.val, "Fxd").text \in DOMAIN Float64Texts
              THEN /\ x_res.val.res.ok
                   /\ x_res.val.res.val
                         = Variant("Fixed", <<Float64Texts[FirstChild(x_arg.val, "Fxd").text]>>)
              ELSE ~x_res.val.res.ok
        /\ (HasChild(x_arg.val, "Fltg") /\ ~HasChild(x_arg.val, "Fxd")) =>
              IF FltgDecodes(FirstChild(x_arg.val, "Fltg"))
              THEN x_res.val.res.ok /\ x_res.val.res.val.variant = "Floating"
              ELSE ~x_res.val.res.ok
        /\ (~HasChild(x_arg.val, "Fltg") /\ ~HasChild(x_arg.val, "Fxd")) =>
              x_res.val.res = Err("ElementNotFound")

\* An element whose only rate child is a decodable Fltg, next to a child
\* that is neither, has been decoded to Floating.
C7_Witness ==
    /\ RateDecoded
    /\ HasChild(x_arg.val, "Fltg") /\ ~HasChild(x_arg.val, "Fxd")
    /\ Len(x_arg.val.children) = 2
    /\ x_res.val.res.ok
    /\ x_res.val.res.val.variant = "Floating"

\* CommodityDerivativeAttributes::from_xml has been called on an element.
CommodityDecoded == Returned("from_xml") /\ x_ty = "CommodityDerivativeAttributes"

\* The TxTp and FnlPricTp children of e, where present, hold codes of their
\* tables.
TypeFieldsDecode(e) ==
    /\ HasChild(e, "TxTp") => FirstChild(e, "TxTp").text \in DOMAIN TransactionType
    /\ HasChild(e, "FnlPricTp") => FirstChild(e, "FnlPricTp").text \in DOMAIN FinalPriceType

\* The call returned Ok with this product when the type fields decode, and
\* an error when they do not.
TakesProduct(e, res, product) ==
    IF TypeFieldsDecode(e) THEN res.ok /\ res.val.product = product ELSE ~res.ok

DerivativeFields ==
    [XpryDt |-> "expiry_date", PricMltplr |-> "price_multiplier",
     UndrlygInstrm |-> "underlying", OptnTp |-> "option_type",
     StrkPric |-> "strike_price", OptnExrcStyle |-> "option_exercise_style",
     DlvryTp |-> "delivery_type",
     AsstClssSpcfcAttrbts |-> "asset_class_specific_attributes"]

AssetClassFields ==
    [Cmmdty |-> "commodity_attributes", Intrst |-> "ir_attributes",
     FX |-> "fx_attributes"]

FieldsOf(ty) == IF ty = "DerivativeAttributes" THEN DerivativeFields ELSE AssetClassFields

\* The child c, whose tag is known, decodes to the value of its field.
ChildDecodes(c) ==
    CASE c.local_name = "XpryDt" -> c.text \in DOMAIN DateTexts
      [] c.local_name = "PricMltplr" -> c.text \in DOMAIN Float64Texts
      [] c.local_name = "UndrlygInstrm" -> from_xml("DerivativeUnderlying", c).ok
      [] c.local_name = "OptnTp" -> c.text \in DOMAIN OptionType
      [] c.local_name = "StrkPric" -> from_xml("StrikePrice", c).ok
      [] c.local_name = "OptnExrcStyle" -> c.text \in DOMAIN OptionExerciseStyle
      [] c.local_name = "DlvryTp" -> c.text \in DOMAIN DeliveryType
      [] c.local_name = "AsstClssSpcfcAttrbts" ->
            from_xml("AssetClassSpecificAttributes", c).ok
      [] c.local_name = "Cmmdty" -> from_xml("CommodityDerivativeAttributes", c).ok
      [] c.local_name = "Intrst" -> from_xml("InterestRateDerivativeAttributes", c).ok
      [] c.local_name = "FX" -> from_xml("FxDerivativeAttributes", c).ok

\* DerivativeAttributes::from_xml or AssetClassSpecificAttributes::from_xml
\* has been called on an element.
AttributesDecoded ==
    /\ Returned("from_xml")
    /\ x_ty \in {"DerivativeAttributes", "AssetClassSpecificAttributes"}

\* The result is Ok and has Some exactly in the fields whose tag occurs among
\* the children of e.
SomeExactlyWherePresent(e, res, fields) ==
    /\ res.ok
    /\ \A tag \in DOMAIN fields : res.val[fields[tag]].some <=> HasChild(e, tag)

\* C19 as stated: the call is Err(UnexpectedElement) when any direct child has
\* a tag outside the known set; when every child is known and decodes, the
\* result has Some exactly in the fields whose tag occurs among the children.
C19_UnknownChildIsUnexpectedElement ==
    AttributesDecoded =>
        LET e      == x_arg.val
            fields == FieldsOf(x_ty)
        IN  /\ (\E i \in 1..Len(e.children) : e.children[i].local_name \notin DOMAIN fields)
                  => x_res.val.res = Err("UnexpectedElement")
            /\ (\A i \in 1..Len(e.children) :
                    /\ e.children[i].local_name \in DOMAIN fields
                    /\ ChildDecodes(e.children[i]))
                  => SomeExactlyWherePresent(e, x_res.val.res, fields)

\* The children of e that stop the loop: the tag is not known, or it is known
\* and the child does not decode.
Offending(e, fields) ==
    {i \in 1..Len(e.children) :
        IF e.children[i].local_name \in DOMAIN fields
        THEN ~ChildDecodes(e.children[i]) ELSE TRUE}

\* C19 amended: the call is an error when any direct child has a tag outside
\* the known set, and that error is UnexpectedElement when every child before
\* the first such child decodes; a known child that does not decode and comes
\* first makes the call fail with its own error.  When every child is known
\* and decodes, the result has Some exactly in the fields whose tag occurs
\* among the children.
C19_FirstOffendingChildDecides ==
    AttributesDecoded =>
        LET e      == x_arg.val
            fields == FieldsOf(x_ty)
            off    == Offending(e, fields)
        IN  IF off = {} THEN SomeExactlyWherePresent(e, x_res.val.res, fields)
            ELSE LET m == CHOOSE i \in off : \A j \in off : i <= j
                 IN  IF e.children[m].local_name \notin DOMAIN fields
                     THEN x_res.val.res = Err("UnexpectedElement")
                     ELSE /\ ~x_res.val.res.ok
                          /\ x_res.val.res = from_xml(x_ty, Element(e.local_name, <<e.children[m]>>, ""))

\* DerivativeAttributes::from_xml has returned UnexpectedElement for an
\* element whose third child is unknown, after two children that decode.
C19_Witness ==
    /\ AttributesDecoded
    /\ x_ty = "DerivativeAttributes"
    /\ Len(x_arg.val.children) = 3
    /\ Offending(x_arg.val, DerivativeFields) = {3}
    /\ x_arg.val.children[3].local_name \notin DOMAIN DerivativeFields
    /\ x_arg.val.children[1].local_name # x_arg.val.children[2].local_name
    /\ x_res.val.res = Err("UnexpectedElement")

\* The types whose from_xml parses the text of the element as a closed
\* enumeration, with the table of each.
EnumTypes ==
    [DebtSeniority |-> DebtSeniority, TransactionType |-> TransactionType,
     FinalPriceType |-> FinalPriceType, FxType |-> FxType]

\* The enum-valued children of DerivInstrmAttrbts, with the table of each.
EnumFields ==
    [OptnTp |-> OptionType, OptnExrcStyle |-> OptionExerciseStyle,
     DlvryTp |-> DeliveryType]

EnumParseError == Err("Firds(StrumEnum)")

\* C14: every closed enumeration parses exactly the codes of its table, any
\* other code string is an enum-parse error and never a default variant, and
\* a from_xml that reads such a field (DebtSeniority, TransactionType,
\* FinalPriceType, FxType, the Unit of a Term, the OptnTp, OptnExrcStyle and
\* DlvryTp of DerivativeAttributes) returns that error; a reference rate name
\* is an IndexCode only for a code of the IndexCode table.
C14_ClosedEnumsParseExactly ==
    Returned("from_xml") =>
        LET e   == x_arg.val
            res == x_res.val.res
        IN  /\ \A ty \in DOMAIN EnumTypes : x_ty = ty =>
                  IF e.text \in DOMAIN EnumTypes[ty]
                  THEN res = Ok(Unit(EnumTypes[ty][e.text]))
                  ELSE res = EnumParseError
            /\ (/\ x_ty = "Term"
                /\ HasChild(e, "Val") /\ HasChild(e, "Unit")
                /\ FirstChild(e, "Val").text \in DOMAIN Int32Texts) =>
                  IF FirstChild(e, "Unit").text \in DOMAIN TermUnit
                  THEN res.ok /\ res.val.unit = Unit(TermUnit[FirstChild(e, "Unit").text])
                  ELSE res = EnumParseError
            /\ (/\ x_ty = "DerivativeAttributes"
                /\ Len(e.children) = 1
                /\ e.children[1].local_name \in DOMAIN EnumFields) =>
                  LET c     == e.children[1]
                      table == EnumFields[c.local_name]
                  IN  IF c.text \in DOMAIN table
                      THEN /\ res.ok
                           /\ res.val[DerivativeFields[c.local_name]] = Some(Unit(table[c.text]))
                      ELSE res = EnumParseError
            /\ (/\ x_ty = "FloatingRate"
                /\ res.ok
                /\ HasChild(e, "RefRate")
                /\ HasChild(FirstChild(e, "RefRate"), "Indx")) =>
                  LET t == FirstChild(FirstChild(e, "RefRate"), "Indx").text
                  IN  /\ res.val.name.some
                      /\ res.val.name.val.variant = "Code" <=> t \in DOMAIN IndexCode
                      /\ t \in DOMAIN IndexCode =>
                            res.val.name.val.payload = <<Unit(IndexCode[t])>>

\* DerivativeAttributes::from_xml has returned the enum-parse error for an
\* OptnTp child whose text is the name of a variant and not its code.
C14_Witness ==
    /\ Returned("from_xml")
    /\ x_ty = "DerivativeAttributes"
    /\ x_arg.val.children = <<Leaf("OptnTp", "Senior")>>
    /\ x_res.val.res = EnumParseError

\* The reference rate name the text t stands for.
IndexNameOf(t) ==
    IF t \in DOMAIN IndexCode
    THEN Variant("Code", <<Unit(IndexCode[t])>>)
    ELSE Variant("Text", <<t>>)

\* C15: IndexName::from_str never fails: a string of the IndexCode table
\* gives IndexName::Code of that code and every other string s gives
\* IndexName::Text(s) unchanged; so a FloatingRate whose RefRate has an Indx
\* or Nm child and whose Term decodes is Ok with that name.
C15_IndexNameNeverFails ==
    /\ Returned("from_str") => x_res.val.res = Ok(IndexNameOf(x_arg.val.text))
    /\ (/\ Returned("from_xml")
        /\ x_ty = "FloatingRate"
        /\ HasChild(x_arg.val, "RefRate")
        /\ from_xml_option("Term", find_child(x_arg.val, "Term")).ok) =>
          LET ref == FirstChild(x_arg.val, "RefRate")
          IN  /\ x_res.val.res.ok
              /\ HasChild(ref, "Indx") =>
                    x_res.val.res.val.name = Some(IndexNameOf(FirstChild(ref, "Indx").text))
              /\ (~HasChild(ref, "Indx") /\ HasChild(ref, "Nm")) =>
                    x_res.val.res.val.name = Some(IndexNameOf(FirstChild(ref, "Nm").text))

\* IndexName::from_str has returned Text for a string that differs from an
\* IndexCode code only by case.
C15_Witness ==
    /\ Returned("from_str")
    /\ x_arg.val.text = "euro"
    /\ x_res.val.res = Ok(Variant("Text", <<"euro">>))

\* The places of the stream, among those already read, where the read
\* failed.
ReadFailures == {i \in 1..(pos - 1) : i <= Len(doc) /\ doc[i] = ErrTok}

\* The items yielded so far that are Err.
ErrItems == {k \in 1..Len(yielded) : ~yielded[k].res.ok}

\* C16: a read failure of the token stream is surfaced as an Err item of the
\* iterator, whether it occurs while next() scans for an interesting tag or
\* inside parse_start: no call of next() aborts the process, and every read
\* failure met so far has given an Err item (none is passed over with the
\* iteration going on as if nothing had happened).
C16_ReadFailureIsErrItem ==
    /\ last # Aborted
    /\ Cardinality(ErrItems) = Cardinality(ReadFailures)

\* The places of the RefData elements of the document d, in document order
\* (no RefData element of these documents lies inside another).
RefDataAt(d) ==
    Ascending({i \in 1..Len(d) : d[i].kind \in {"Start", "Empty"} /\ d[i].name = "RefData"})

\* C17: in the record stream the i-th item always corresponds to the i-th
\* RefData element of the document: a RefData element whose mapping fails
\* gives exactly one Err item and does not end the iteration (no call
\* aborts, and the next call gives the result for the next element), and
\* when None is returned every RefData element has given its item.
C17_ItemPerRefData ==
    /\ last # Aborted
    /\ Len(yielded) <= Len(RefDataAt(doc))
    /\ \A k \in 1..Len(yielded) :
           k <= Len(RefDataAt(doc)) => yielded[k].at = RefDataAt(doc)[k]
    /\ done => Len(yielded) = Len(RefDataAt(doc))

\* C18: date_or_none is Ok(None) for an absent element and, for a present
\* element with any text, is Ok(Some(date)) parsed from the first 10
\* characters of the text or Err(DateTime); it always returns and never
\* aborts, also when the text is shorter than 10 characters.
C18_DateOrNoneAlwaysReturns ==
    Returned("date_or_none") =>
        IF ~x_arg.some THEN x_res.val.res = Ok(None)
        ELSE /\ x_res.val.res # Aborted
             /\ \/ x_res.val.res = Err("DateTime")
                \/ \E t \in DOMAIN DateTexts : x_res.val.res = Ok(Some(DateTexts[t]))

\* UnderlyingSingle::from_xml or DerivativeUnderlying::from_xml has been
\* called on an element.
ChoiceDecoded ==
    Returned("from_xml") /\ x_ty \in {"UnderlyingSingle", "DerivativeUnderlying"}

\* The result is Ok with this variant.
IsVariant(res, v) == res.ok /\ res.val.variant = v

\* The choice tags of a choice type in the priority order of its match, each
\* with its variant.
ChoiceTags(ty) ==
    IF ty = "UnderlyingSingle"
    THEN <<[tag |-> "ISIN", variant |-> "Isin"], [tag |-> "LEI", variant |-> "Lei"],
           [tag |-> "Indx", variant |-> "Index"]>>
    ELSE <<[tag |-> "Sngl", variant |-> "Single"], [tag |-> "Bskt", variant |-> "Basket"]>>

\* The payload of a choice child: the decoded value the variant holds, or
\* the error of decoding it.
ChoicePayload(child) ==
    CASE child.local_name \in {"ISIN", "LEI"} -> Ok(child.text)
      [] child.local_name = "Indx" -> from_xml("Index", child)
      [] child.local_name = "Sngl" -> from_xml("UnderlyingSingle", child)
      [] child.local_name = "Bskt" -> from_xml("UnderlyingBasket", child)

NoChoiceError(ty) ==
    IF ty = "UnderlyingSingle" THEN Err("Firds(Enum)") ELSE Err("UnexpectedElement")

C22_NoneThenAlwaysNone ==
    /\ <>done
    /\ [][done => (scan(doc, pos).item = None /\ yielded' = yielded /\ last' = None)]_vars

\* None has been returned after an item, with the cursor at the end of a
\* stream that goes on after the item.
C22_Witness ==
    /\ done
    /\ last = None
    /\ Len(yielded) = 1
    /\ Len(doc) = 3
    /\ pos > Len(doc)
    /\ scan(doc, pos).item = None

(***************************************************************************)
(* Claims about the download.                                              *)
(***************************************************************************)
\* The call has returned this error.
Failed(e) == dl_ret = Some(Err(e))

\* C23: the body is written to the `.part` file, which is renamed to the
\* final name only after every chunk has been written and, when verify is
\* true, the MD5 check has succeeded: while the file at the final path is
\* what it was before the call, nothing is required; once it differs, the
\* call has returned Ok, the file holds every chunk of the body and, when
\* verify is true, its digest is the checksum.  A call that returns an error
\* has left the final path as it was.  With overwrite = false and a file at
\* the final path the call returns FileExists and has sent no request.
C23_RenamedOnlyWhenComplete ==
    /\ fpath # dl_args.fpath =>
          /\ dl_ret = Some(Ok("fpath"))
          /\ stream = <<>>
          /\ fpath = Some(Flatten(dl_args.body))
          /\ dl_args.verify =>
                /\ dl_args.checksum.some
                /\ dl_args.checksum.val = lower_encode_string(Md5(Flatten(dl_args.body)))
    /\ (dl_ret.some /\ ~dl_ret.val.ok) => fpath = dl_args.fpath
    /\ (~dl_args.overwrite /\ dl_args.fpath.some) =>
          /\ dl_sent = 0
          /\ dl_pc = "returned" => Failed("FileExists")

\* With overwrite = true and a file at the final path, the whole body was
\* written to the `.part` file and the MD5 check failed: the call returned
\* the error and the old file is still there.
C23_Witness ==
    /\ Failed("Md5CheckFailed")
    /\ dl_args.overwrite
    /\ dl_args.fpath = Some(OldContent)
    /\ fpath = Some(OldContent)
    /\ Len(dl_args.body) = 2
    /\ fpath_part = Some(Flatten(dl_args.body))

(***************************************************************************)
(* Claims about the optional further codes of the taxonomy.                *)
(***************************************************************************)
\* The subproducts whose further code is optional, with the variants of
\* their base product and of themselves and the table of their further
\* codes.
OptionalFurther ==
    {[prod |-> "AGRI", sub |-> "OOLI", base |-> "Agricultural",
      variant |-> "OliveOil", table |-> OliveOilFurtherSubProduct],
     [prod |-> "AGRI", sub |-> "GRIN", base |-> "Agricultural",
      variant |-> "Grain", table |-> GrainFurtherSubProduct],
     [prod |-> "NRGY", sub |-> "NGAS", base |-> "Energy",
      variant |-> "NaturalGas", table |-> NaturalGasFurtherSubProduct],
     [prod |-> "NRGY", sub |-> "OILP", base |-> "Energy",
      variant |-> "Oil", table |-> OilFurtherSubProduct],
     [prod |-> "ENVR", sub |-> "EMIS", base |-> "Environmental",
      variant |-> "Emissions", table |-> EmissionsFurtherSubProduct],
     [prod |-> "FRGT", sub |-> "WETF", base |-> "Freight",
      variant |-> "Wet", table |-> WetFreightFurtherSubProduct],
     [prod |-> "FRGT", sub |-> "DRYF", base |-> "Freight",
      variant |-> "Dry", table |-> DryFreightFurtherSubProduct]}

\* try_from_codes has been called with this optional subproduct.
CalledOptional(m) ==
    /\ decoded.some
    /\ codes.val.prod = m.prod
    /\ codes.val.sub_prod = Some(m.sub)

\* C24: for every subproduct whose further code is optional, try_from_codes
\* with no further code is Ok with the variant holding None, with a further
\* code of the subproduct's table is Ok with the variant holding Some(code),
\* and with any other further code is Err(BadSubProduct).
C24_OptionalFurther ==
    \A m \in OptionalFurther :
        CalledOptional(m) =>
            IF ~codes.val.further_sub_prod.some
            THEN decoded.val = Ok(Variant(m.base, <<Variant(m.variant, <<None>>)>>))
            ELSE IF codes.val.further_sub_prod.val \in DOMAIN m.table
            THEN decoded.val =
                    Ok(Variant(m.base,
                        <<Variant(m.variant,
                            <<Some(Unit(m.table[codes.val.further_sub_prod.val]))>>)>>))
            ELSE decoded.val = Err("BadSubProduct")

\* try_from_codes("NRGY", Some("NGAS"), Some("BRNT")) has returned
\* Err(BadSubProduct): BRNT is a further code, of OILP and not of NGAS.
C24_Witness ==
    /\ Called("NRGY", Some("NGAS"), Some("BRNT"))
    /\ decoded.val = Err("BadSubProduct")

(***************************************************************************)
(* Claims about the errors of the commodity product.                       *)
(***************************************************************************)
\* The errors of the taxonomy, as the mapper returns them.
TaxonomyErrors ==
    {Err(xml_error_from_product(e)) : e \in {"NoSubProduct", "BadSubProduct", "BadProduct"}}

\* C25: when the first child of `Pdct` has a `BasePdct` child and its codes
\* violate the taxonomy, CommodityDerivativeAttributes::from_xml returns that
\* taxonomy error: the error of the first decode is propagated, not
\* replaced by what the retry one level deeper gives.
C25_TaxonomyErrorPropagated ==
    (/\ CommodityDecoded
     /\ HasChild(x_arg.val, "Pdct")
     /\ FirstChild(x_arg.val, "Pdct").children # <<>>)
        => LET c == FirstChild(x_arg.val, "Pdct").children[1]
           IN  (HasChild(c, "BasePdct") /\ BaseProduct_from_xml(c) \in TaxonomyErrors)
                   => x_res.val.res = BaseProduct_from_xml(c)

(***************************************************************************)
(* Claims about the children of a materialized element.                    *)
(***************************************************************************)
\* The tag names of a sequence of elements.
NamesOf(es) == [k \in 1..Len(es) |-> es[k].local_name]

\* The tag names of the direct child elements of the element that starts at
\* i, in document order, whether written with a start tag or as an
\* empty-element tag.
ChildElementNames(d, i) ==
    LET idx == Ascending({j \in DirectAt(d, i) : d[j].kind \in {"Start", "Empty"}})
    IN  [k \in 1..Len(idx) |-> d[idx[k]].name]

\* C26: the Element returned by parse_start has exactly one child per direct
\* child element between its start tag and its matching end tag, in the
\* same order, child elements written as empty-element tags included, and
\* no other children.
C26_ChildrenMirrorDocument ==
    WellFormed(doc) =>
        \A k \in 1..Len(yielded) :
            /\ yielded[k].res.ok
            /\ NamesOf(yielded[k].res.val.children) = ChildElementNames(doc, yielded[k].at)

(***************************************************************************)
(* Claims about the probe order of InterestRate.                           *)
(***************************************************************************)
\* The value Floating holds for this Fltg element when it decodes.
FloatingOf(f) ==
    Variant("Floating",
            <<from_xml("FloatingRate", f).val,
              IF HasChild(f, "BsisPtSprd")
              THEN Some(Int32Texts[FirstChild(f, "BsisPtSprd").text])
              ELSE None>>)

\* C27: InterestRate::from_xml probes `Fltg` before `Fxd`: an element with
\* both children decodes to Floating, built from its first `Fltg` child
\* alone, whatever its `Fxd` child holds; and when that `Fltg` child fails
\* to decode the call fails, even when a valid `Fxd` child is present.
C27_FloatingBeforeFixed ==
    (RateDecoded /\ HasChild(x_arg.val, "Fltg") /\ HasChild(x_arg.val, "Fxd")) =>
        IF FltgDecodes(FirstChild(x_arg.val, "Fltg"))
        THEN x_res.val.res = Ok(FloatingOf(FirstChild(x_arg.val, "Fltg")))
        ELSE ~x_res.val.res.ok

\* An element with a valid `Fxd` child and a `Fltg` child that does not
\* decode has been decoded, and the call failed.
C27_Witness ==
    /\ RateDecoded
    /\ HasChild(x_arg.val, "Fltg") /\ HasChild(x_arg.val, "Fxd")
    /\ FirstChild(x_arg.val, "Fxd").text \in DOMAIN Float64Texts
    /\ ~FltgDecodes(FirstChild(x_arg.val, "Fltg"))
    /\ ~x_res.val.res.ok

(***************************************************************************)
(* Claims about the strike price.                                          *)
(***************************************************************************)
\* StrikePrice::from_xml has been called on an element.
StrikeDecoded == Returned("from_xml") /\ x_ty = "StrikePrice"

\* The `Pric` element holds one of the four ways a price is written.
HasPriceValue(p) ==
    \/ (HasChild(p, "MntryVal") /\ HasChild(FirstChild(p, "MntryVal"), "Amt"))
    \/ HasChild(p, "Pctg")
    \/ HasChild(p, "Yld")
    \/ HasChild(p, "BsisPts")

\* C28: every StrikePrice returned Ok has a price exactly when its
\* price_type is not NoPrice, and is pending only when its price_type is
\* NoPrice, and then exactly when the text of `Pdg` is "PNDG"; an element
\* with neither a `Pric` nor a `NoPric` child, and one whose `Pric` holds
\* none of MntryVal/Amt, Pctg, Yld, BsisPts, is ElementNotFound.
C28_StrikePriceShape ==
    StrikeDecoded =>
        LET e   == x_arg.val
            res == x_res.val.res
        IN  /\ res.ok =>
                  /\ res.val.price.some <=> res.val.price_type # Unit("NoPrice")
                  /\ res.val.pending => res.val.price_type = Unit("NoPrice")
                  /\ res.val.price_type = Unit("NoPrice") =>
                        (res.val.pending
                            <=> FirstChild(FirstChild(e, "NoPric"), "Pdg").text = "PNDG")
            /\ (~HasChild(e, "Pric") /\ ~HasChild(e, "NoPric")) =>
                  res = Err("ElementNotFound")
            /\ (HasChild(e, "Pric") /\ ~HasPriceValue(FirstChild(e, "Pric"))) =>
                  res = Err("ElementNotFound")

\* A `NoPric` whose `Pdg` text is not "PNDG" has been decoded: no price, and
\* not pending.
C28_Witness ==
    /\ StrikeDecoded
    /\ x_res.val.res.ok
    /\ x_res.val.res.val.price_type = Unit("NoPrice")
    /\ x_res.val.res.val.price = None
    /\ ~x_res.val.res.val.pending

(***************************************************************************)
(* Claims about the publication period.                                    *)
(***************************************************************************)
\* PublicationPeriod::from_xml has been called on an element.
PeriodDecoded == Returned("from_xml") /\ x_ty = "PublicationPeriod"

\* The element has a child with this tag whose text is a date.
HasDate(e, n) == HasChild(e, n) /\ FirstChild(e, n).text \in DOMAIN DateTexts

\* The date in the text of the first child with this tag.
DateOf(e, n) == DateTexts[FirstChild(e, n).text]

\* C29: PublicationPeriod::from_xml on an element whose `FrDtToDt` child
\* holds a `FrDt` date and optionally a `ToDt` date returns Ok with
\* from_date the `FrDt` date and to_date the `ToDt` date (None when there is
\* no `ToDt`); on an element with only a direct `FrDt` child it returns that
\* date with to_date None.
C29_PublicationPeriodDates ==
    PeriodDecoded =>
        LET e == x_arg.val
        IN  /\ HasChild(e, "FrDtToDt") =>
                  LET f == FirstChild(e, "FrDtToDt")
                  IN  /\ (HasDate(f, "FrDt") /\ HasDate(f, "ToDt")) =>
                            x_res.val.res = Ok([from_date |-> DateOf(f, "FrDt"),
                                                to_date |-> Some(DateOf(f, "ToDt"))])
                      /\ (HasDate(f, "FrDt") /\ ~HasChild(f, "ToDt")) =>
                            x_res.val.res = Ok([from_date |-> DateOf(f, "FrDt"),
                                                to_date |-> None])
            /\ (~HasChild(e, "FrDtToDt") /\ HasDate(e, "FrDt")) =>
                  x_res.val.res = Ok([from_date |-> DateOf(e, "FrDt"), to_date |-> None])

(***************************************************************************)
(* Claims about the record store.                                          *)
(***************************************************************************)
\* The trading venue of a ReferenceData row.
VenueOf(row) == TradingVenueAttributes[row.trading_venue_attrs_id].trading_venue

\* The rows of an instrument on a trading venue whose valid_to is NULL.
OpenRows(isin, venue) ==
    {id \in 1..Len(ReferenceData) :
        /\ ReferenceData[id].isin = isin
        /\ VenueOf(ReferenceData[id]) = venue
        /\ ~ReferenceData[id].valid_to.some}

====
